---- MODULE Spec2Model ----
(***************************************************************************)
(* Model of the dependency handling of the workload orchestrator:          *)
(*   - server side: cyclic_check::dfs (src/server/src/server_state.rs),    *)
(*     the iterative depth-first search that admits a desired state;       *)
(*   - agent side: WorkloadScheduler                                       *)
(*     (src/agent/src/workload_scheduler/scheduler.rs) with the predicates *)
(*     of DependencyStateValidator (dependency_state_validator.rs).        *)
(* DfsSpec runs the cycle check on every desired state within the bounds,  *)
(* one action per loop iteration.  Spec runs the scheduler, one action per *)
(* public call, interleaved with writes to the workload state store.  A    *)
(* call is suspended in a report while the workload state channel is full: *)
(* the step of the call ends there, the receiver of the channel takes a    *)
(* notification in a step of its own, and the call goes on in a further    *)
(* step.                                                                   *)
(* AnyInputSpec runs the scheduler on batches that need not obey the       *)
(* producer contract.  ValidatorSpec calls the two predicates of           *)
(* DependencyStateValidator on their own.                                  *)
(* HistorySpec remembers the operations the scheduler returned, ReevalSpec *)
(* a call with an empty batch until the next call has ended.  FairSpec is  *)
(* the scheduler with a sweep after every change of the store.             *)
(* ClosedSinkSpec lets the receiver of the workload state channel close.   *)
(* DfsRunSpec is one call of the cycle check that runs to its return.      *)
(* ClientSpec is GRPCCommunicationsClient::run (src/grpc/src/client.rs),   *)
(* the connection loop of an agent or a command line client.               *)
(***************************************************************************)
EXTENDS Naturals, Integers, Sequences, FiniteSets, TLC

VARIABLES
    \* ---- cyclic_check::dfs ----
    workloads,   \* state.workloads: workload name -> keys of its dependencies map
    data,        \* the sorted vector of workload names (server_state.rs:58-59)
    di,          \* position of the outer for loop in data
    stack,       \* VecDeque stack, front first
    visited,     \* HashSet visited
    path,        \* VecDeque path, back last
    result,      \* return value of dfs, or Running while the loops execute
    pushes,      \* number of stack.push_front calls made so far (observer)
    firstRun,    \* observer: state and result of an earlier call of dfs, if any
    examined,    \* observer: the head whose dependencies were examined last
    \* ---- WorkloadScheduler ----
    queue,       \* WorkloadOperationQueue: workload name -> PendingEntry
    store,       \* workload state store: workload name -> execution state
    nextId,      \* observer: tag given to the next operation handed to the scheduler
    lastCall,    \* observer: the call that ended last, "put" after a write to
                 \* the store, "suspended" while a call is suspended
    lastBatch,   \* observer: the tagged batch handed to the last call
    callStore,   \* observer: the store passed to the last call
    lastOut,     \* observer: ready operations returned by the last call
    lastNotes,   \* observer: notifications sent by the last call
    sent,        \* observer: per operation tag, notifications sent so far
    split,       \* observer: per operation tag, number of UpdateDeleteOnly emitted
    interfered,  \* observer: tags of pending updates during which another
                 \* operation of the same workload name was emitted
    emitted,     \* observer: <<tag, kind>> of the Create, Update and Delete
                 \* operations returned so far
    firstCall,   \* observer: the call with an empty batch that came just
                 \* before the last call, if any
    receiver,    \* the receiving end of the workload state channel
    panicked,    \* tag of the operation whose report panicked, 0 if none
    running,     \* the call of the scheduler that is suspended in a report
    buffered,    \* number of notifications in the workload state channel
    \* ---- DependencyStateValidator called on its own ----
    probeInput,  \* the predicate to call, its workload and the store passed
    probeResult, \* the value returned and the store lookups made (observer)
    \* ---- GRPCCommunicationsClient ----
    client,      \* the fields name, server_address and connection_type
    run,         \* the position of run, the result of the last run_internal,
                 \* the value run returned, the calls of run_internal made and
                 \* the seconds slept since the last of them (observers)
    grpc_tx      \* the messages sent into the outgoing channel of the attempt

dfsVars == <<workloads, data, di, stack, visited, path, result, pushes, firstRun,
            examined>>
schedVars == <<queue, store, nextId, running, buffered, lastCall, lastBatch,
               callStore, lastOut, lastNotes, sent, split, interfered>>
observers == <<lastCall, lastBatch, callStore, lastOut, lastNotes, sent, split,
               interfered, emitted, firstCall>>
histVars == <<emitted, firstCall, receiver, panicked>>
valVars == <<probeInput, probeResult>>
clientVars == <<client, run, grpc_tx>>
vars == <<workloads, data, di, stack, visited, path, result, pushes, firstRun,
          examined,
          queue, store, nextId, running, buffered, lastCall, lastBatch,
          callStore, lastOut, lastNotes, sent, split, interfered,
          emitted, firstCall, receiver, panicked, probeInput, probeResult,
          client, run, grpc_tx>>

(***************************************************************************)
(* Bounds                                                                  *)
(***************************************************************************)
\* largest total number of dependency entries of a desired state
MaxDeps == 5
\* largest number of operations handed to the scheduler in one behaviour
MaxAccepted == 3
\* largest number of operations of one input batch
MaxBatch == 2
MaxMalformed == 2

(***************************************************************************)
(* Names.  Rust sorts Vec<&String> lexicographically; the model's workload *)
(* names are listed in that order and compared by their position.          *)
(***************************************************************************)
BaseNames == <<"A", "B", "C", "D">>

\* format!("1_{start_node}") of CompleteStateBuilder::set_start_node
StartName(start_node) == "1_" \o start_node

\* every name in lexicographic order: '1' sorts before the letters
SortedNames == [i \in 1..Len(BaseNames) |-> StartName(BaseNames[i])] \o BaseNames

WorkloadNames == {BaseNames[i] : i \in 1..Len(BaseNames)}

NameRank(n) == CHOOSE i \in 1..Len(SortedNames) : SortedNames[i] = n

\* data.sort() / dependencies.sort(): the elements of S in ascending order
RECURSIVE SortNames(_)
SortNames(S) ==
    IF S = {} THEN <<>>
    ELSE LET m == CHOOSE x \in S : \A y \in S : NameRank(x) <= NameRank(y)
         IN <<m>> \o SortNames(S \ {m})

Reverse(seq) == [i \in 1..Len(seq) |-> seq[Len(seq) + 1 - i]]

\* orders in which HashMap::keys may yield the keys S: the order depends on
\* the random seed of the map, so it may be any permutation of S
KeysOrders(S) ==
    {ord \in [1..Cardinality(S) -> S] :
        \A i, j \in DOMAIN ord : i # j => ord[i] # ord[j]}

\* variant of SortVec: a vector the map yielded in descending order is left
\* as it is
SortVecKeepsDescending(vec) ==
    LET sorted == SortNames({vec[i] : i \in DOMAIN vec})
    IN IF vec = Reverse(sorted) THEN vec ELSE sorted

\* Vec::sort on the collected keys
SortVec(vec) == SortNames({vec[i] : i \in DOMAIN vec})

Contains(seq, x) == \E i \in 1..Len(seq) : seq[i] = x

\* VecDeque::pop_back: drops the last element, no effect on an empty deque
PopBack(seq) == IF Len(seq) = 0 THEN seq ELSE SubSeq(seq, 1, Len(seq) - 1)

(***************************************************************************)
(* cyclic_check                                                            *)
(***************************************************************************)
Running == [kind |-> "Running", arg |-> ""]
OkResult == [kind |-> "Ok", arg |-> ""]
WorkloadPartOfCycle(w) == [kind |-> "WorkloadPartOfCycle", arg |-> w]
InvalidStructure(msg) == [kind |-> "InvalidStructure", arg |-> msg]

\* variant of NotPartOfStateMsg: the message does not quote the name
NotPartOfStateMsgUnquoted(head) == "workload " \o head \o " is not part of the state."

\* format!("workload '{head}' is not part of the state.")
NotPartOfStateMsg(head) == "workload '" \o head \o "' is not part of the state."

\* variant of DependencyLoop: any visited dependency is taken as a cycle,
\* the path is not consulted
RECURSIVE DependencyLoopVisitedIsCycle(_, _, _, _, _, _)
DependencyLoopVisitedIsCycle(deps, i, stk, vis, pth, n) ==
    IF i > Len(deps) THEN [stack |-> stk, result |-> Running, pushes |-> n]
    ELSE IF deps[i] \notin vis
         THEN DependencyLoopVisitedIsCycle(deps, i + 1, <<deps[i]>> \o stk,
                                           vis, pth, n + 1)
         ELSE [stack |-> stk, result |-> WorkloadPartOfCycle(deps[i]),
               pushes |-> n]

\* variant of DependencyLoop: a dependency that is not part of the state is
\* reported while the dependencies are examined
RECURSIVE DependencyLoopChecksDangling(_, _, _, _, _, _)
DependencyLoopChecksDangling(deps, i, stk, vis, pth, n) ==
    IF i > Len(deps) THEN [stack |-> stk, result |-> Running, pushes |-> n]
    ELSE IF deps[i] \notin DOMAIN workloads
         THEN [stack |-> stk,
               result |-> InvalidStructure(NotPartOfStateMsg(deps[i])),
               pushes |-> n]
         ELSE IF deps[i] \notin vis
              THEN DependencyLoopChecksDangling(deps, i + 1, <<deps[i]>> \o stk,
                                                vis, pth, n + 1)
              ELSE IF Contains(pth, deps[i])
                   THEN [stack |-> stk, result |-> WorkloadPartOfCycle(deps[i]),
                         pushes |-> n]
                   ELSE DependencyLoopChecksDangling(deps, i + 1, stk, vis, pth, n)

\* variant of DependencyLoop: a dependency is pushed whether visited or not
RECURSIVE DependencyLoopPushesVisited(_, _, _, _, _, _)
DependencyLoopPushesVisited(deps, i, stk, vis, pth, n) ==
    IF i > Len(deps) THEN [stack |-> stk, result |-> Running, pushes |-> n]
    ELSE DependencyLoopPushesVisited(deps, i + 1, <<deps[i]>> \o stk, vis, pth,
                                     n + 1)

\* for dependency in dependencies { ... } (server_state.rs:90-99), from
\* position i of the sorted dependencies; yields the stack, the number of
\* pushes and the early return value, if any
RECURSIVE DependencyLoop(_, _, _, _, _, _)
DependencyLoop(deps, i, stk, vis, pth, n) ==
    IF i > Len(deps) THEN [stack |-> stk, result |-> Running, pushes |-> n]
    ELSE IF deps[i] \notin vis
         THEN DependencyLoop(deps, i + 1, <<deps[i]>> \o stk, vis, pth, n + 1)
         ELSE IF Contains(pth, deps[i])
              THEN [stack |-> stk, result |-> WorkloadPartOfCycle(deps[i]),
                    pushes |-> n]
              ELSE DependencyLoop(deps, i + 1, stk, vis, pth, n)

RECURSIVE SumCard(_, _)
SumCard(f, S) ==
    IF S = {} THEN 0
    ELSE LET x == CHOOSE y \in S : TRUE
         IN Cardinality(f[x]) + SumCard(f, S \ {x})

NumDeps(w) == SumCard(w, DOMAIN w)

\* no call with an empty batch came just before the last call
NoFirstCall == [made |-> FALSE, queue |-> <<>>, notes |-> <<>>]

\* no call of the scheduler is suspended
NotCalling ==
    [call |-> "none", ops |-> <<>>, loop |-> "batch", i |-> 1, entries |-> <<>>,
     ready |-> <<>>, notes |-> <<>>, before |-> <<>>]

\* the value of an observer that a specification does not keep
Unobserved == "unobserved"

Observers ==
    {"lastBatch", "callStore", "lastNotes", "sent", "split", "interfered",
     "emitted", "firstCall"}

\* the scheduler right after WorkloadScheduler::new, with an empty store and
\* an empty channel; the observers of watch are kept
SchedNew(watch) ==
    /\ queue = <<>>
    /\ store = <<>>
    /\ nextId = 1
    /\ running = NotCalling
    /\ buffered = 0
    /\ receiver = "open"
    /\ panicked = 0
    /\ lastCall = "new"
    /\ lastOut = <<>>
    /\ lastBatch = IF "lastBatch" \in watch THEN <<>> ELSE Unobserved
    /\ callStore = IF "callStore" \in watch THEN <<>> ELSE Unobserved
    /\ lastNotes = IF "lastNotes" \in watch THEN <<>> ELSE Unobserved
    /\ sent = IF "sent" \in watch THEN <<>> ELSE Unobserved
    /\ split = IF "split" \in watch THEN <<>> ELSE Unobserved
    /\ interfered = IF "interfered" \in watch THEN {} ELSE Unobserved
    /\ emitted = IF "emitted" \in watch THEN {} ELSE Unobserved
    /\ firstCall = IF "firstCall" \in watch THEN NoFirstCall ELSE Unobserved

SchedStart == SchedNew(Observers)

\* no call of a predicate of DependencyStateValidator on its own
NoProbe == [call |-> "none", workload |-> <<>>, db |-> <<>>]
NotCalled == [called |-> FALSE, value |-> FALSE, lookups |-> 0]

ProbeStart ==
    /\ probeInput = NoProbe
    /\ probeResult = NotCalled

\* no client has been constructed
NoClient == [name |-> "", server_address |-> "", connection_type |-> "Agent"]

\* run has not been called
\* what run has returned: nothing yet, or Ok(())
NoReturn == [value |-> "none", message |-> <<>>]
RunOk == [value |-> "Ok", message |-> <<>>]

NotRunning ==
    [pc |-> "created", result |-> "none", returned |-> NoReturn, calls |-> 0,
     slept |-> 0]

ClientStart ==
    /\ client = NoClient
    /\ run = NotRunning
    /\ grpc_tx = <<>>

Returned == result.kind # "Running"

\* no earlier call of dfs
NoRun == [workloads |-> <<>>, result |-> Running]

\* entry of dfs: the containers are empty and data holds the sorted keys.
\* The desired state is any set of workloads over the names, each with any
\* set of dependency names, dangling ones included.
DfsInit ==
    /\ \E K \in SUBSET WorkloadNames : workloads \in [K -> SUBSET WorkloadNames]
    /\ NumDeps(workloads) <= MaxDeps
    /\ \E keys \in KeysOrders(DOMAIN workloads) : data = SortVec(keys)
    /\ di = 1
    /\ stack = <<>>
    /\ visited = {}
    /\ path = <<>>
    /\ result = Running
    /\ pushes = 0
    /\ firstRun = NoRun
    /\ examined = ""
    /\ SchedStart
    /\ ClientStart
    /\ ProbeStart

\* for workload_name in data: an already visited name is skipped
DfsSkipVisited ==
    /\ result = Running
    /\ stack = <<>>
    /\ di <= Len(data)
    /\ data[di] \in visited
    /\ di' = di + 1
    /\ UNCHANGED <<workloads, data, stack, visited, path, result, pushes, firstRun, examined>>
    /\ UNCHANGED <<schedVars, histVars, valVars, clientVars>>

\* for workload_name in data: an unvisited name is pushed as start node
DfsStartNode ==
    /\ result = Running
    /\ stack = <<>>
    /\ di <= Len(data)
    /\ data[di] \notin visited
    /\ stack' = <<data[di]>>
    /\ pushes' = pushes + 1
    /\ di' = di + 1
    /\ UNCHANGED <<workloads, data, visited, path, result, firstRun, examined>>
    /\ UNCHANGED <<schedVars, histVars, valVars, clientVars>>

\* variant of DfsHeadMissing: a head that is not part of the state is
\* skipped instead of reported
DfsHeadMissingSkipped ==
    /\ result = Running
    /\ stack # <<>>
    /\ Head(stack) \notin DOMAIN workloads
    /\ stack' = Tail(stack)
    /\ UNCHANGED <<workloads, data, di, visited, path, result, pushes, firstRun, examined>>
    /\ UNCHANGED <<schedVars, histVars, valVars, clientVars>>

\* one iteration of while let Some(head) = stack.front() whose head is not
\* a key of state.workloads: the ok_or_else()? returns the error
DfsHeadMissing ==
    /\ result = Running
    /\ stack # <<>>
    /\ Head(stack) \notin DOMAIN workloads
    /\ result' = InvalidStructure(NotPartOfStateMsg(Head(stack)))
    /\ UNCHANGED <<workloads, data, di, stack, visited, path, pushes, firstRun, examined>>
    /\ UNCHANGED <<schedVars, histVars, valVars, clientVars>>

\* variant of DfsIterate: the removal of a visited head leaves the path alone
DfsIterateNoPathPop ==
    /\ result = Running
    /\ stack # <<>>
    /\ Head(stack) \in DOMAIN workloads
    /\ LET head == Head(stack)
           first == head \notin visited
           vis == IF first THEN visited \cup {head} ELSE visited
           pth == IF first THEN Append(path, head) ELSE path
           stk == IF first THEN stack ELSE Tail(stack)
       IN \E keys \in KeysOrders(workloads[head]) :
            LET r == DependencyLoop(SortVec(keys), 1, stk, vis, pth, pushes)
            IN /\ visited' = vis
               /\ path' = pth
               /\ stack' = r.stack
               /\ result' = r.result
               /\ pushes' = r.pushes
    /\ examined' = Head(stack)
    /\ UNCHANGED <<workloads, data, di, firstRun>>
    /\ UNCHANGED <<schedVars, histVars, valVars, clientVars>>

\* one iteration of the while loop for a head that is a key of
\* state.workloads: visit it or remove it, then examine its dependencies
DfsIterate ==
    /\ result = Running
    /\ stack # <<>>
    /\ Head(stack) \in DOMAIN workloads
    /\ LET head == Head(stack)
           first == head \notin visited
           vis == IF first THEN visited \cup {head} ELSE visited
           pth == IF first THEN Append(path, head) ELSE PopBack(path)
           stk == IF first THEN stack ELSE Tail(stack)
       IN \E keys \in KeysOrders(workloads[head]) :
            LET r == DependencyLoop(SortVec(keys), 1, stk, vis, pth, pushes)
            IN /\ visited' = vis
               /\ path' = pth
               /\ stack' = r.stack
               /\ result' = r.result
               /\ pushes' = r.pushes
    /\ examined' = Head(stack)
    /\ UNCHANGED <<workloads, data, di, firstRun>>
    /\ UNCHANGED <<schedVars, histVars, valVars, clientVars>>

\* the outer loop is exhausted: Ok(())
DfsReturnOk ==
    /\ result = Running
    /\ stack = <<>>
    /\ di > Len(data)
    /\ result' = OkResult
    /\ UNCHANGED <<workloads, data, di, stack, visited, path, pushes, firstRun, examined>>
    /\ UNCHANGED <<schedVars, histVars, valVars, clientVars>>

\* CompleteStateBuilder::set_start_node: the workload start_node is renamed
\* so that it sorts first, as a key and in every dependencies map
set_start_node(state, start_node) ==
    LET new_name == StartName(start_node)
        renamed(deps) == IF start_node \in deps
                         THEN (deps \ {start_node}) \cup {new_name}
                         ELSE deps
    IN [n \in (DOMAIN state \ {start_node}) \cup {new_name} |->
          IF n = new_name THEN renamed(state[start_node]) ELSE renamed(state[n])]

\* the desired states of a second call of dfs: the same state, or the same
\* state with one of its workloads made the start node
SecondStates ==
    {workloads} \cup {set_start_node(workloads, n) : n \in DOMAIN workloads}

\* after dfs returned, it is called once more
DfsCallAgain ==
    /\ Returned
    /\ firstRun = NoRun
    /\ firstRun' = [workloads |-> workloads, result |-> result]
    /\ workloads' \in SecondStates
    /\ \E keys \in KeysOrders(DOMAIN workloads') : data' = SortVec(keys)
    /\ di' = 1
    /\ stack' = <<>>
    /\ visited' = {}
    /\ path' = <<>>
    /\ result' = Running
    /\ pushes' = 0
    /\ examined' = ""
    /\ UNCHANGED <<schedVars, histVars, valVars, clientVars>>

DfsNext ==
    \/ DfsSkipVisited
    \/ DfsStartNode
    \/ DfsHeadMissing
    \/ DfsIterate
    \/ DfsReturnOk
    \/ DfsCallAgain

DfsSpec == DfsInit /\ [][DfsNext]_vars

\* one call of dfs that is not suspended: the loops keep executing until
\* dfs returns
DfsRunNext ==
    \/ DfsSkipVisited
    \/ DfsStartNode
    \/ DfsHeadMissing
    \/ DfsIterate
    \/ DfsReturnOk

DfsRunSpec == DfsInit /\ [][DfsRunNext]_vars /\ WF_vars(DfsRunNext)

(***************************************************************************)
(* Graph notions used to state the properties of the cycle check           *)
(***************************************************************************)
\* every dependency name is a key of workloads
NoDangling == \A w \in DOMAIN workloads : workloads[w] \subseteq DOMAIN workloads

Dangling == {d \in UNION {workloads[w] : w \in DOMAIN workloads} : d \notin DOMAIN workloads}

\* the names reachable from the set S through one or more dependency edges
RECURSIVE ReachFrom(_)
ReachFrom(S) ==
    LET next == S \cup UNION {workloads[w] : w \in S \cap DOMAIN workloads}
    IN IF next = S THEN S ELSE ReachFrom(next)

OnCycle(n) == n \in DOMAIN workloads /\ n \in ReachFrom(workloads[n])

HasCycle == \E n \in DOMAIN workloads : OnCycle(n)

(***************************************************************************)
(* Workload objects                                                        *)
(***************************************************************************)
\* workload names handled by the scheduler and the name they depend on
ScheduledNames == {"W1", "W3"}
DependencyNames == {"W2"}

AgentName == "agent_A"

\* execution states the runtime reports into the store
ExecutionStates == {"Pending", "Running", "Succeeded"}

\* Option::None of get_state_of_workload
NoState == "None"

\* AddCondition::fulfilled_by (spec section 3, table of AddCondition)
AddCondFulfilledBy(cond, state) ==
    CASE cond = "AddCondRunning" -> state = "Running"
      [] cond = "AddCondSucceeded" -> state = "Succeeded"
      [] cond = "AddCondFailed" -> state = "Failed"

\* the table of DeleteCondition in spec section 3
DelCondTable(cond, state) ==
    CASE cond = "DelCondRunning" -> state = "Running"
      [] cond = "DelCondNotPendingNorRunning" -> state \notin {"Pending", "Running"}

\* the <<condition, state>> pairs on which the tests of delete_fulfilled
\* assert that the condition is fulfilled: utest_delete_fulfilled
\* (ExecutionState::succeeded()) and
\* utest_delete_fulfilled_unfulfilled_execution_state
\* (ExecutionState::running()), both with DelCondNotPendingNorRunning
DelCondAssertedFulfilled ==
    {<<"DelCondNotPendingNorRunning", "Succeeded">>,
     <<"DelCondNotPendingNorRunning", "Running">>}

\* DeleteCondition::fulfilled_by: what the tests of delete_fulfilled assert
\* where they assert, the table of spec section 3 elsewhere
DelCondFulfilledBy(cond, state) ==
    \/ <<cond, state>> \in DelCondAssertedFulfilled
    \/ DelCondTable(cond, state)

\* a dependencies map is a set of <<workload name, condition>> entries; the
\* maps the producer uses for the new and the old incarnation of a workload
AddDependencies(name) ==
    IF name = "W1"
    THEN {{}} \cup {{<<d, c>>} : d \in DependencyNames,
                                 c \in {"AddCondRunning", "AddCondSucceeded"}}
    ELSE {{<<d, "AddCondRunning">>} : d \in DependencyNames}

DeleteDependencies(name) ==
    IF name = "W1"
    THEN {{<<d, c>>} : d \in DependencyNames,
                       c \in {"DelCondRunning", "DelCondNotPendingNorRunning"}}
    ELSE {{<<d, "DelCondNotPendingNorRunning">>} : d \in DependencyNames}

InstanceName(name, hash) ==
    [workload_name |-> name, agent_name |-> AgentName, hash |-> hash]

\* WorkloadSpec: the new incarnation of a workload
WorkloadSpecs ==
    UNION {{[instance_name |-> InstanceName(n, "new"), dependencies |-> d] :
               d \in AddDependencies(n)} : n \in ScheduledNames}

\* DeletedWorkload: the old incarnation of a workload
DeletedWorkloads ==
    UNION {{[instance_name |-> InstanceName(n, "old"), dependencies |-> d] :
               d \in DeleteDependencies(n)} : n \in ScheduledNames}

\* filler of the operand an operation or queue entry does not have
NoWorkload ==
    [instance_name |-> [workload_name |-> "", agent_name |-> "", hash |-> ""],
     dependencies |-> {}]

\* WorkloadOperation; id is the observer's tag of the operation handed in
Create(spec, id) == [op |-> "Create", new |-> spec, old |-> NoWorkload, id |-> id]
Update(spec, del, id) == [op |-> "Update", new |-> spec, old |-> del, id |-> id]
UpdateDeleteOnly(del, id) ==
    [op |-> "UpdateDeleteOnly", new |-> NoWorkload, old |-> del, id |-> id]
Delete(del, id) == [op |-> "Delete", new |-> NoWorkload, old |-> del, id |-> id]

\* PendingEntry
PendingCreate(spec, id) ==
    [kind |-> "Create", new |-> spec, old |-> NoWorkload, id |-> id]
PendingDelete(del, id) ==
    [kind |-> "Delete", new |-> NoWorkload, old |-> del, id |-> id]
PendingUpdateCreate(spec, del, id) ==
    [kind |-> "UpdateCreate", new |-> spec, old |-> del, id |-> id]
PendingUpdateDelete(spec, del, id) ==
    [kind |-> "UpdateDelete", new |-> spec, old |-> del, id |-> id]

\* the workload name an operation is about
OpName(o) ==
    IF o.op \in {"Create", "Update"} THEN o.new.instance_name.workload_name
    ELSE o.old.instance_name.workload_name

(***************************************************************************)
(* Workload state store and DependencyStateValidator                       *)
(***************************************************************************)
get_state_of_workload(db, name) ==
    IF name \in DOMAIN db THEN db[name] ELSE NoState

\* variant of create_fulfilled: a dependency of unknown state counts as
\* fulfilled (map_or(true, ...))
create_fulfilled_unknown_true(workload, db) ==
    \A dep \in workload.dependencies :
        LET wl_state == get_state_of_workload(db, dep[1])
        IN IF wl_state = NoState THEN TRUE
           ELSE AddCondFulfilledBy(dep[2], wl_state)

create_fulfilled(workload, db) ==
    \A dep \in workload.dependencies :
        LET wl_state == get_state_of_workload(db, dep[1])
        IN IF wl_state = NoState THEN FALSE
           ELSE AddCondFulfilledBy(dep[2], wl_state)

delete_fulfilled(workload, db) ==
    \A dep \in workload.dependencies :
        LET wl_state == get_state_of_workload(db, dep[1])
        IN IF wl_state = NoState THEN TRUE
           ELSE DelCondFulfilledBy(dep[2], wl_state)

(***************************************************************************)
(* The predicates of DependencyStateValidator called on their own, on      *)
(* every workload and store within the sets below (ValidatorSpec)          *)
(***************************************************************************)
\* the names a probed workload may depend on
ProbeDependencyNames == {"W2", "W4"}

\* the execution states a probed store may hold
ProbeStates ==
    {"Pending", "Running", "Succeeded", "Failed", "Stopping", "Removed",
     "WaitingToStart", "WaitingToStop"}

AddConditions == {"AddCondRunning", "AddCondSucceeded", "AddCondFailed"}
DeleteConditions == {"DelCondRunning", "DelCondNotPendingNorRunning"}

\* the dependencies maps over the names: at most one condition per name
DependencyMaps(conditions) ==
    {m \in SUBSET (ProbeDependencyNames \X conditions) :
        \A p, q \in m : p[1] = q[1] => p = q}

\* the stores that know the state of some of the names
ProbeStores ==
    UNION {[K -> ProbeStates] : K \in SUBSET ProbeDependencyNames}

ProbeInputs ==
    {[call |-> "create_fulfilled",
      workload |-> [instance_name |-> InstanceName("W1", "new"), dependencies |-> m],
      db |-> db] : m \in DependencyMaps(AddConditions), db \in ProbeStores}
    \cup
    {[call |-> "delete_fulfilled",
      workload |-> [instance_name |-> InstanceName("W1", "old"), dependencies |-> m],
      db |-> db] : m \in DependencyMaps(DeleteConditions), db \in ProbeStores}

\* the orders in which dependencies.iter() may yield the entries of the map
IterOrders(dependencies) ==
    {ord \in [1..Cardinality(dependencies) -> dependencies] :
        \A i, j \in DOMAIN ord : i # j => ord[i] # ord[j]}

\* Iterator::all: the closure runs on the entries in turn until it first
\* yields false; verdicts[i] is what it yields on the i-th entry, the value
\* is the number of entries it ran on
AllCalls(verdicts) ==
    LET failing == {i \in DOMAIN verdicts : ~verdicts[i]}
    IN IF failing = {} THEN Len(verdicts)
       ELSE CHOOSE i \in failing : \A j \in failing : i <= j

\* the closures of create_fulfilled and delete_fulfilled; each run makes
\* one call of get_state_of_workload
create_closure(dep, db) ==
    LET wl_state == get_state_of_workload(db, dep[1])
    IN IF wl_state = NoState THEN FALSE
       ELSE AddCondFulfilledBy(dep[2], wl_state)

delete_closure(dep, db) ==
    LET wl_state == get_state_of_workload(db, dep[1])
    IN IF wl_state = NoState THEN TRUE
       ELSE DelCondFulfilledBy(dep[2], wl_state)

ValidatorInit ==
    /\ workloads = <<>>
    /\ data = <<>>
    /\ di = 1
    /\ stack = <<>>
    /\ visited = {}
    /\ path = <<>>
    /\ result = Running
    /\ pushes = 0
    /\ firstRun = NoRun
    /\ examined = ""
    /\ SchedStart
    /\ ClientStart
    /\ probeInput \in ProbeInputs
    /\ probeResult = NotCalled

\* DependencyStateValidator::create_fulfilled(workload, workload_state_db)
CallCreateFulfilled ==
    /\ probeInput.call = "create_fulfilled"
    /\ ~probeResult.called
    /\ \E ord \in IterOrders(probeInput.workload.dependencies) :
          probeResult' =
              [called |-> TRUE,
               value |-> create_fulfilled(probeInput.workload, probeInput.db),
               lookups |-> AllCalls([i \in DOMAIN ord |->
                                        create_closure(ord[i], probeInput.db)])]
    /\ UNCHANGED <<probeInput, dfsVars, schedVars, histVars, clientVars>>

\* DependencyStateValidator::delete_fulfilled(workload, workload_state_db)
CallDeleteFulfilled ==
    /\ probeInput.call = "delete_fulfilled"
    /\ ~probeResult.called
    /\ \E ord \in IterOrders(probeInput.workload.dependencies) :
          probeResult' =
              [called |-> TRUE,
               value |-> delete_fulfilled(probeInput.workload, probeInput.db),
               lookups |-> AllCalls([i \in DOMAIN ord |->
                                        delete_closure(ord[i], probeInput.db)])]
    /\ UNCHANGED <<probeInput, dfsVars, schedVars, histVars, clientVars>>

ValidatorNext ==
    \/ CallCreateFulfilled
    \/ CallDeleteFulfilled

ValidatorSpec == ValidatorInit /\ [][ValidatorNext]_vars

(***************************************************************************)
(* WorkloadScheduler.  The private methods are operators on the scheduler  *)
(* state s = [queue, notes]: the queue and the notifications written to    *)
(* the workload state sender; they yield the new state and the ready       *)
(* operations.                                                             *)
(***************************************************************************)
\* HashMap::insert
Insert(q, k, v) == [x \in DOMAIN q \cup {k} |-> IF x = k THEN v ELSE q[x]]

Step(q, n, r) == [queue |-> q, notes |-> n, ready |-> r]

report_pending_create_state(notes, pending_workload, id) ==
    Append(notes, [instance_name |-> pending_workload.instance_name,
                   state |-> "WaitingToStart", id |-> id])

report_pending_delete_state(notes, waiting_deleted_workload, id) ==
    Append(notes, [instance_name |-> waiting_deleted_workload.instance_name,
                   state |-> "WaitingToStop", id |-> id])

\* variant of enqueue_pending_create: a dependency of unknown state counts
\* as fulfilled
enqueue_pending_create_unknown_ok(s, new_workload_spec, db, notify_on_new_entry, id) ==
    IF \A dep \in new_workload_spec.dependencies :
          \/ get_state_of_workload(db, dep[1]) = NoState
          \/ AddCondFulfilledBy(dep[2], get_state_of_workload(db, dep[1]))
    THEN Step(s.queue, s.notes, <<Create(new_workload_spec, id)>>)
    ELSE Step(Insert(s.queue, new_workload_spec.instance_name.workload_name,
                     PendingCreate(new_workload_spec, id)),
              IF notify_on_new_entry
              THEN report_pending_create_state(s.notes, new_workload_spec, id)
              ELSE s.notes,
              <<>>)

\* variant of enqueue_pending_create: the pending create is queued without
\* reporting its waiting state
enqueue_pending_create_no_report(s, new_workload_spec, db, notify_on_new_entry, id) ==
    IF create_fulfilled(new_workload_spec, db)
    THEN Step(s.queue, s.notes, <<Create(new_workload_spec, id)>>)
    ELSE Step(Insert(s.queue, new_workload_spec.instance_name.workload_name,
                     PendingCreate(new_workload_spec, id)),
              s.notes,
              <<>>)

enqueue_pending_create(s, new_workload_spec, db, notify_on_new_entry, id) ==
    IF create_fulfilled(new_workload_spec, db)
    THEN Step(s.queue, s.notes, <<Create(new_workload_spec, id)>>)
    ELSE Step(Insert(s.queue, new_workload_spec.instance_name.workload_name,
                     PendingCreate(new_workload_spec, id)),
              IF notify_on_new_entry
              THEN report_pending_create_state(s.notes, new_workload_spec, id)
              ELSE s.notes,
              <<>>)

\* variant of enqueue_pending_delete: the waiting state is reported whatever
\* notify_on_new_entry is
enqueue_pending_delete_always_notify(s, deleted_workload, db, notify_on_new_entry, id) ==
    IF delete_fulfilled(deleted_workload, db)
    THEN Step(s.queue, s.notes, <<Delete(deleted_workload, id)>>)
    ELSE Step(Insert(s.queue, deleted_workload.instance_name.workload_name,
                     PendingDelete(deleted_workload, id)),
              report_pending_delete_state(s.notes, deleted_workload, id),
              <<>>)

\* variant of enqueue_pending_delete: the waiting state is reported for a
\* delete that is ready, too
enqueue_pending_delete_reports_ready(s, deleted_workload, db, notify_on_new_entry, id) ==
    IF delete_fulfilled(deleted_workload, db)
    THEN Step(s.queue,
              report_pending_delete_state(s.notes, deleted_workload, id),
              <<Delete(deleted_workload, id)>>)
    ELSE Step(Insert(s.queue, deleted_workload.instance_name.workload_name,
                     PendingDelete(deleted_workload, id)),
              IF notify_on_new_entry
              THEN report_pending_delete_state(s.notes, deleted_workload, id)
              ELSE s.notes,
              <<>>)

\* variant of enqueue_pending_delete: the pending delete reports the waiting
\* state of a pending create
enqueue_pending_delete_reports_start(s, deleted_workload, db, notify_on_new_entry, id) ==
    IF delete_fulfilled(deleted_workload, db)
    THEN Step(s.queue, s.notes, <<Delete(deleted_workload, id)>>)
    ELSE Step(Insert(s.queue, deleted_workload.instance_name.workload_name,
                     PendingDelete(deleted_workload, id)),
              IF notify_on_new_entry
              THEN report_pending_create_state(s.notes, deleted_workload, id)
              ELSE s.notes,
              <<>>)

enqueue_pending_delete(s, deleted_workload, db, notify_on_new_entry, id) ==
    IF delete_fulfilled(deleted_workload, db)
    THEN Step(s.queue, s.notes, <<Delete(deleted_workload, id)>>)
    ELSE Step(Insert(s.queue, deleted_workload.instance_name.workload_name,
                     PendingDelete(deleted_workload, id)),
              IF notify_on_new_entry
              THEN report_pending_delete_state(s.notes, deleted_workload, id)
              ELSE s.notes,
              <<>>)

\* variant of enqueue_pending_update: the whole pending update reports its
\* waiting state whatever notify_on_new_entry is
enqueue_pending_update_always_notify(s, new_workload_spec, deleted_workload, db, notify_on_new_entry, id) ==
    LET create_ok == create_fulfilled(new_workload_spec, db)
        delete_ok == delete_fulfilled(deleted_workload, db)
        name == new_workload_spec.instance_name.workload_name
    IN IF create_ok /\ delete_ok
       THEN Step(s.queue, s.notes,
                 <<Update(new_workload_spec, deleted_workload, id)>>)
       ELSE IF delete_ok
            THEN Step(Insert(s.queue, name,
                             PendingUpdateCreate(new_workload_spec,
                                                 deleted_workload, id)),
                      report_pending_create_state(s.notes, new_workload_spec, id),
                      <<UpdateDeleteOnly(deleted_workload, id)>>)
            ELSE Step(Insert(s.queue, name,
                             PendingUpdateDelete(new_workload_spec,
                                                 deleted_workload, id)),
                      report_pending_delete_state(s.notes, deleted_workload, id),
                      <<>>)

\* variant of enqueue_pending_update: the pending update is stored under
\* the workload name of the deleted workload
enqueue_pending_update_keyed_by_old(s, new_workload_spec, deleted_workload, db, notify_on_new_entry, id) ==
    LET create_ok == create_fulfilled(new_workload_spec, db)
        delete_ok == delete_fulfilled(deleted_workload, db)
        name == deleted_workload.instance_name.workload_name
    IN IF create_ok /\ delete_ok
       THEN Step(s.queue, s.notes,
                 <<Update(new_workload_spec, deleted_workload, id)>>)
       ELSE IF delete_ok
            THEN Step(Insert(s.queue, name,
                             PendingUpdateCreate(new_workload_spec,
                                                 deleted_workload, id)),
                      report_pending_create_state(s.notes, new_workload_spec, id),
                      <<UpdateDeleteOnly(deleted_workload, id)>>)
            ELSE Step(Insert(s.queue, name,
                             PendingUpdateDelete(new_workload_spec,
                                                 deleted_workload, id)),
                      IF notify_on_new_entry
                      THEN report_pending_delete_state(s.notes, deleted_workload, id)
                      ELSE s.notes,
                      <<>>)

\* variant of enqueue_pending_update: an update whose delete may proceed but
\* whose create may not is parked as a whole instead of being split
enqueue_pending_update_no_split(s, new_workload_spec, deleted_workload, db, notify_on_new_entry, id) ==
    LET create_ok == create_fulfilled(new_workload_spec, db)
        delete_ok == delete_fulfilled(deleted_workload, db)
        name == new_workload_spec.instance_name.workload_name
    IN IF create_ok /\ delete_ok
       THEN Step(s.queue, s.notes,
                 <<Update(new_workload_spec, deleted_workload, id)>>)
       ELSE Step(Insert(s.queue, name,
                        PendingUpdateDelete(new_workload_spec,
                                            deleted_workload, id)),
                 IF notify_on_new_entry
                 THEN report_pending_delete_state(s.notes, deleted_workload, id)
                 ELSE s.notes,
                 <<>>)

\* variant of enqueue_pending_update: the update is emitted as soon as its
\* create dependencies are fulfilled, whatever its delete dependencies are
enqueue_pending_update_create_only(s, new_workload_spec, deleted_workload, db, notify_on_new_entry, id) ==
    LET create_ok == create_fulfilled(new_workload_spec, db)
        delete_ok == delete_fulfilled(deleted_workload, db)
        name == new_workload_spec.instance_name.workload_name
    IN IF create_ok
       THEN Step(s.queue, s.notes,
                 <<Update(new_workload_spec, deleted_workload, id)>>)
       ELSE IF delete_ok
            THEN Step(Insert(s.queue, name,
                             PendingUpdateCreate(new_workload_spec,
                                                 deleted_workload, id)),
                      report_pending_create_state(s.notes, new_workload_spec, id),
                      <<UpdateDeleteOnly(deleted_workload, id)>>)
            ELSE Step(Insert(s.queue, name,
                             PendingUpdateDelete(new_workload_spec,
                                                 deleted_workload, id)),
                      IF notify_on_new_entry
                      THEN report_pending_delete_state(s.notes, deleted_workload, id)
                      ELSE s.notes,
                      <<>>)

\* variant of enqueue_pending_update: the branch of the immediate update
\* does not return, so the update also runs through the split branch
enqueue_pending_update_no_return(s, new_workload_spec, deleted_workload, db, notify_on_new_entry, id) ==
    LET create_ok == create_fulfilled(new_workload_spec, db)
        delete_ok == delete_fulfilled(deleted_workload, db)
        name == new_workload_spec.instance_name.workload_name
    IN IF delete_ok
       THEN Step(Insert(s.queue, name,
                        PendingUpdateCreate(new_workload_spec,
                                            deleted_workload, id)),
                 report_pending_create_state(s.notes, new_workload_spec, id),
                 IF create_ok
                 THEN <<Update(new_workload_spec, deleted_workload, id),
                        UpdateDeleteOnly(deleted_workload, id)>>
                 ELSE <<UpdateDeleteOnly(deleted_workload, id)>>)
       ELSE Step(Insert(s.queue, name,
                        PendingUpdateDelete(new_workload_spec,
                                            deleted_workload, id)),
                 IF notify_on_new_entry
                 THEN report_pending_delete_state(s.notes, deleted_workload, id)
                 ELSE s.notes,
                 <<>>)

\* variant of enqueue_pending_update: after the split the entry stays an
\* UpdateDelete
enqueue_pending_update_split_keeps_delete(s, new_workload_spec, deleted_workload, db, notify_on_new_entry, id) ==
    LET create_ok == create_fulfilled(new_workload_spec, db)
        delete_ok == delete_fulfilled(deleted_workload, db)
        name == new_workload_spec.instance_name.workload_name
    IN IF create_ok /\ delete_ok
       THEN Step(s.queue, s.notes,
                 <<Update(new_workload_spec, deleted_workload, id)>>)
       ELSE Step(Insert(s.queue, name,
                        PendingUpdateDelete(new_workload_spec,
                                            deleted_workload, id)),
                 IF delete_ok
                 THEN report_pending_create_state(s.notes, new_workload_spec, id)
                 ELSE IF notify_on_new_entry
                      THEN report_pending_delete_state(s.notes, deleted_workload, id)
                      ELSE s.notes,
                 IF delete_ok THEN <<UpdateDeleteOnly(deleted_workload, id)>>
                 ELSE <<>>)

enqueue_pending_update(s, new_workload_spec, deleted_workload, db, notify_on_new_entry, id) ==
    LET create_ok == create_fulfilled(new_workload_spec, db)
        delete_ok == delete_fulfilled(deleted_workload, db)
        name == new_workload_spec.instance_name.workload_name
    IN IF create_ok /\ delete_ok
       THEN Step(s.queue, s.notes,
                 <<Update(new_workload_spec, deleted_workload, id)>>)
       ELSE IF delete_ok
            THEN Step(Insert(s.queue, name,
                             PendingUpdateCreate(new_workload_spec,
                                                 deleted_workload, id)),
                      report_pending_create_state(s.notes, new_workload_spec, id),
                      <<UpdateDeleteOnly(deleted_workload, id)>>)
            ELSE Step(Insert(s.queue, name,
                             PendingUpdateDelete(new_workload_spec,
                                                 deleted_workload, id)),
                      IF notify_on_new_entry
                      THEN report_pending_delete_state(s.notes, deleted_workload, id)
                      ELSE s.notes,
                      <<>>)

\* variant of SweepEntry: a pending UpdateDelete is swept like a pending
\* UpdateCreate, by its create dependencies alone
SweepEntryUpdateDeleteAsCreate(s, queue_entry, db) ==
    CASE queue_entry.kind = "Create" ->
           enqueue_pending_create(s, queue_entry.new, db, FALSE, queue_entry.id)
      [] queue_entry.kind = "Delete" ->
           enqueue_pending_delete(s, queue_entry.old, db, FALSE, queue_entry.id)
      [] queue_entry.kind \in {"UpdateCreate", "UpdateDelete"} ->
           IF create_fulfilled(queue_entry.new, db)
           THEN Step(s.queue, s.notes,
                     <<Update(queue_entry.new, queue_entry.old, queue_entry.id)>>)
           ELSE Step(Insert(s.queue, queue_entry.new.instance_name.workload_name,
                            queue_entry),
                     s.notes, <<>>)

\* variant of SweepEntry: a pending Create is put back into the queue
\* without looking at its dependencies
SweepEntryKeepsCreate(s, queue_entry, db) ==
    IF queue_entry.kind = "Create"
    THEN Step(Insert(s.queue, queue_entry.new.instance_name.workload_name,
                     queue_entry),
              s.notes, <<>>)
    ELSE SweepEntryUpdateDeleteAsCreate(s, queue_entry, db)

\* variant of SweepEntry: a pending UpdateCreate is swept like a pending
\* UpdateDelete, its delete dependencies are looked at again
SweepEntryUpdateCreateAsDelete(s, queue_entry, db) ==
    CASE queue_entry.kind = "Create" ->
           enqueue_pending_create(s, queue_entry.new, db, FALSE, queue_entry.id)
      [] queue_entry.kind = "Delete" ->
           enqueue_pending_delete(s, queue_entry.old, db, FALSE, queue_entry.id)
      [] queue_entry.kind \in {"UpdateCreate", "UpdateDelete"} ->
           enqueue_pending_update(s, queue_entry.new, queue_entry.old, db, FALSE,
                                  queue_entry.id)

\* variant of SweepEntry: a pending Delete that is emitted is also put back
\* into the queue
SweepEntryKeepsEmittedDelete(s, queue_entry, db) ==
    CASE queue_entry.kind = "Create" ->
           enqueue_pending_create(s, queue_entry.new, db, FALSE, queue_entry.id)
      [] queue_entry.kind = "Delete" ->
           Step(Insert(s.queue, queue_entry.old.instance_name.workload_name,
                       queue_entry),
                s.notes,
                IF delete_fulfilled(queue_entry.old, db)
                THEN <<Delete(queue_entry.old, queue_entry.id)>>
                ELSE <<>>)
      [] queue_entry.kind = "UpdateCreate" ->
           IF create_fulfilled(queue_entry.new, db)
           THEN Step(s.queue, s.notes,
                     <<Update(queue_entry.new, queue_entry.old, queue_entry.id)>>)
           ELSE Step(Insert(s.queue, queue_entry.new.instance_name.workload_name,
                            PendingUpdateCreate(queue_entry.new, queue_entry.old,
                                                queue_entry.id)),
                     s.notes, <<>>)
      [] queue_entry.kind = "UpdateDelete" ->
           enqueue_pending_update(s, queue_entry.new, queue_entry.old, db, FALSE,
                                  queue_entry.id)

\* one arm of the match of next_workload_operations
SweepEntry(s, queue_entry, db) ==
    CASE queue_entry.kind = "Create" ->
           enqueue_pending_create(s, queue_entry.new, db, FALSE, queue_entry.id)
      [] queue_entry.kind = "Delete" ->
           enqueue_pending_delete(s, queue_entry.old, db, FALSE, queue_entry.id)
      [] queue_entry.kind = "UpdateCreate" ->
           IF create_fulfilled(queue_entry.new, db)
           THEN Step(s.queue, s.notes,
                     <<Update(queue_entry.new, queue_entry.old, queue_entry.id)>>)
           ELSE Step(Insert(s.queue, queue_entry.new.instance_name.workload_name,
                            PendingUpdateCreate(queue_entry.new, queue_entry.old,
                                                queue_entry.id)),
                     s.notes, <<>>)
      [] queue_entry.kind = "UpdateDelete" ->
           enqueue_pending_update(s, queue_entry.new, queue_entry.old, db, FALSE,
                                  queue_entry.id)

(***************************************************************************)
(* A call in progress.  Every report is                                    *)
(* sender.report_workload_execution_state(..).await on the bounded         *)
(* workload state channel: the call is suspended there while the channel   *)
(* is full, and panics there when the receiver is gone.  The state s of a  *)
(* call holds the queue, the notifications that have reached the channel   *)
(* (notes), the operations to return (ready), the loop the call executes   *)
(* (batch or sweep) with its position i, the entries the sweep has         *)
(* drained, the free places of the channel (room) and whether the receiver *)
(* is gone (closed); status tells how the loops were left.                 *)
(***************************************************************************)
\* capacity of the workload state channel: channel(1)
ChannelCapacity == 1

\* the state in which a call on queue q begins
CallState(q, room, closed) ==
    [queue |-> q, notes |-> <<>>, ready |-> <<>>, loop |-> "batch", i |-> 1,
     entries |-> <<>>, room |-> room, closed |-> closed, status |-> "run",
     blocked |-> 0]

\* a report cannot be sent now
CannotSend(s) == s.closed \/ s.room = 0

\* the call is left in the report of the operation tagged id: the send
\* fails and the call panics, or the send waits for a free place
Stopped(s, id) ==
    [s EXCEPT !.status = IF s.closed THEN "panicked" ELSE "pending",
              !.blocked = id]

\* the call after the operation at position s.i with the outcome r
Advanced(s, r) ==
    [s EXCEPT !.queue = r.queue,
              !.notes = r.notes,
              !.ready = s.ready \o r.ready,
              !.i = s.i + 1,
              !.room = s.room - (Len(r.notes) - Len(s.notes))]

\* for queue_entry in queue_entries { ... }, from position s.i; the report
\* of an entry precedes its queue.insert
\* the element of a set of one element; in {e(x) : x \in {v}} the value v
\* is computed once, however often e uses it
Only(S) == CHOOSE x \in S : TRUE

RECURSIVE SweepLoop(_, _)
SweepLoop(s0, db) ==
    Only({IF s.i > Len(s.entries) THEN [s EXCEPT !.status = "returned"]
          ELSE Only({IF Len(r.notes) > Len(s.notes) /\ CannotSend(s)
                     THEN Stopped(s, s.entries[s.i].id)
                     ELSE SweepLoop(Advanced(s, r), db) :
                     r \in {SweepEntry([queue |-> s.queue, notes |-> s.notes],
                                      s.entries[s.i], db)}}) :
          s \in {s0}})

\* the orders in which HashMap::drain may yield the entries of q
DrainOrders(q) ==
    {ord \in [1..Cardinality(DOMAIN q) -> DOMAIN q] :
        \A i, j \in DOMAIN ord : i # j => ord[i] # ord[j]}

\* next_workload_operations in the call state s, whose queue is drained in
\* the order ord of its keys
next_workload_operations(s, db, ord) ==
    SweepLoop([s EXCEPT !.loop = "sweep",
                        !.i = 1,
                        !.entries = [k \in DOMAIN ord |-> s.queue[ord[k]]],
                        !.queue = <<>>], db)

\* variant of FilterOperation: an UpdateDeleteOnly of the batch is passed
\* on to the ready operations
FilterOperationForwardsDeleteOnly(s, workload_operation, db) ==
    CASE workload_operation.op = "Create" ->
           enqueue_pending_create(s, workload_operation.new, db, TRUE,
                                  workload_operation.id)
      [] workload_operation.op = "Update" ->
           enqueue_pending_update(s, workload_operation.new, workload_operation.old,
                                  db, TRUE, workload_operation.id)
      [] workload_operation.op = "Delete" ->
           enqueue_pending_delete(s, workload_operation.old, db, TRUE,
                                  workload_operation.id)
      [] workload_operation.op = "UpdateDeleteOnly" ->
           Step(s.queue, s.notes, <<workload_operation>>)

\* one arm of the match of enqueue_filtered_workload_operations
FilterOperation(s, workload_operation, db) ==
    CASE workload_operation.op = "Create" ->
           enqueue_pending_create(s, workload_operation.new, db, TRUE,
                                  workload_operation.id)
      [] workload_operation.op = "Update" ->
           enqueue_pending_update(s, workload_operation.new, workload_operation.old,
                                  db, TRUE, workload_operation.id)
      [] workload_operation.op = "Delete" ->
           enqueue_pending_delete(s, workload_operation.old, db, TRUE,
                                  workload_operation.id)
      [] workload_operation.op = "UpdateDeleteOnly" ->
           Step(s.queue, s.notes, <<>>)

\* variant of FilterLoop: the operation is inserted into the queue before
\* its report is sent
RECURSIVE FilterLoopInsertFirst(_, _, _)
FilterLoopInsertFirst(s0, new_workload_operations, db) ==
    Only({IF s.i > Len(new_workload_operations) THEN s
          ELSE Only({IF Len(r.notes) > Len(s.notes) /\ CannotSend(s)
                     THEN [Stopped(s, new_workload_operations[s.i].id)
                              EXCEPT !.queue = r.queue]
                     ELSE FilterLoopInsertFirst(Advanced(s, r),
                                                new_workload_operations, db) :
                     r \in {FilterOperation([queue |-> s.queue, notes |-> s.notes],
                                          new_workload_operations[s.i], db)}}) :
          s \in {s0}})

\* for workload_operation in new_workload_operations { ... }, from position
\* s.i; the report of an operation precedes its queue.insert
RECURSIVE FilterLoop(_, _, _)
FilterLoop(s0, new_workload_operations, db) ==
    Only({IF s.i > Len(new_workload_operations) THEN s
          ELSE Only({IF Len(r.notes) > Len(s.notes) /\ CannotSend(s)
                     THEN Stopped(s, new_workload_operations[s.i].id)
                     ELSE FilterLoop(Advanced(s, r), new_workload_operations, db) :
                     r \in {FilterOperation([queue |-> s.queue, notes |-> s.notes],
                                          new_workload_operations[s.i], db)}}) :
          s \in {s0}})

\* variant of enqueue_filtered_workload_operations: the operations of the
\* sweep are returned before those of the batch
enqueue_filtered_sweep_first(s, new_workload_operations, db, ord) ==
    LET b == FilterLoop(s, new_workload_operations, db)
        n == next_workload_operations([b EXCEPT !.ready = <<>>], db, ord)
    IN IF b.status # "run" THEN b
       ELSE [n EXCEPT !.ready = n.ready \o b.ready]

\* variant of enqueue_filtered_workload_operations: the queue is swept only
\* when the batch has operations
enqueue_filtered_sweep_if_batch(s, new_workload_operations, db, ord) ==
    LET b == FilterLoop(s, new_workload_operations, db)
    IN IF b.status # "run" THEN b
       ELSE IF new_workload_operations = <<>>
            THEN [b EXCEPT !.status = "returned"]
            ELSE next_workload_operations(b, db, ord)

\* enqueue_filtered_workload_operations in the call state s; ord is the
\* drain order of its sweep
enqueue_filtered_workload_operations(s, new_workload_operations, db, ord) ==
    LET b == FilterLoop(s, new_workload_operations, db)
    IN IF b.status # "run" THEN b
       ELSE next_workload_operations(b, db, ord)

\* a suspended call goes on where its report was pending
Resumed(s, new_workload_operations, db, ord) ==
    IF s.loop = "sweep" THEN SweepLoop(s, db)
    ELSE enqueue_filtered_workload_operations(s, new_workload_operations, db, ord)

\* the queue the sweep of the call in state s drains once the loop over the
\* batch is through; a call that is in its sweep drains nothing more
QueueAfterBatch(s, new_workload_operations, db) ==
    IF s.loop = "sweep" THEN <<>>
    ELSE FilterLoop([s EXCEPT !.room = Len(new_workload_operations),
                              !.closed = FALSE],
                    new_workload_operations, db).queue

(***************************************************************************)
(* Input batches of the operation producer                                 *)
(***************************************************************************)
\* the operations the producer may hand in; the tag 0 is replaced on entry
ProducerOperations ==
    {Create(w, 0) : w \in WorkloadSpecs}
    \cup {Delete(d, 0) : d \in DeletedWorkloads}
    \cup {Update(p[1], p[2], 0) :
             p \in {x \in WorkloadSpecs \X DeletedWorkloads :
                      x[1].instance_name.workload_name
                          = x[2].instance_name.workload_name}}

\* batches that obey the producer contract: no UpdateDeleteOnly, at most
\* one operation per workload name
ContractBatches ==
    UNION {{b \in [1..n -> ProducerOperations] :
               \A i, j \in 1..n : i # j => OpName(b[i]) # OpName(b[j])} :
           n \in 0..MaxBatch}

\* the batch with its operations tagged from, from + 1, ...
Tagged(batch, from) ==
    [i \in DOMAIN batch |-> [batch[i] EXCEPT !.id = from + i - 1]]

(***************************************************************************)
(* Observers.  A specification keeps the observers of its set watch; the   *)
(* others hold Unobserved from its initial state on.  lastBatch, lastOut,  *)
(* lastNotes and callStore describe the call that ended last and are empty *)
(* while a call is suspended.                                              *)
(***************************************************************************)
Count(seq, P(_)) == Cardinality({i \in 1..Len(seq) : P(seq[i])})

\* the tags the observers keep: those of the entries of queue q and of the
\* operations and notifications of the call that just ended
Live(q, r) ==
    {q[n].id : n \in DOMAIN q}
    \cup {r.ready[i].id : i \in 1..Len(r.ready)}
    \cup {r.notes[i].id : i \in 1..Len(r.notes)}

\* notifications sent so far for the tags of keep, counted per
\* <<tag, state>>; notes are the notifications sent since sent was taken
SentAfter(notes, keep) ==
    LET keys == {k \in DOMAIN sent \cup {<<notes[i].id, notes[i].state>> :
                                              i \in 1..Len(notes)} :
                    k[1] \in keep}
    IN [k \in keys |->
          (IF k \in DOMAIN sent THEN sent[k] ELSE 0)
          + Cardinality({i \in 1..Len(notes) :
                            <<notes[i].id, notes[i].state>> = k})]

\* UpdateDeleteOnly operations emitted so far for the live tags
SplitAfter(r) ==
    LET udo == {i \in 1..Len(r.ready) : r.ready[i].op = "UpdateDeleteOnly"}
        keys == {k \in DOMAIN split \cup {r.ready[i].id : i \in udo} :
                    k \in Live(r.queue, r)}
    IN [k \in keys |->
          (IF k \in DOMAIN split THEN split[k] ELSE 0)
          + Cardinality({i \in udo : r.ready[i].id = k})]

\* live tags of the updates that are pending before and after the call
\* (queue q before it) while the call emits an operation of another tag for
\* the same workload name
InterferedAfter(q, r) ==
    (interfered \cup
     {q[n].id : n \in {m \in DOMAIN q \cap DOMAIN r.queue :
        /\ q[m].kind \in {"UpdateCreate", "UpdateDelete"}
        /\ r.queue[m].id = q[m].id
        /\ \E i \in 1..Len(r.ready) :
              OpName(r.ready[i]) = m /\ r.ready[i].id # q[m].id}})
    \cap Live(r.queue, r)

\* tags of the Create, Update and Delete operations of ready
EmittedBy(ready) ==
    {ready[i].id : i \in {k \in 1..Len(ready) : ready[k].op # "UpdateDeleteOnly"}}

\* the observers after a step of the call on the batch ops that began on
\* the queue before and is in the state s: the call has returned, panicked,
\* or is suspended in a report
Observe(watch, call, ops, s, before) ==
    LET pending == s.status = "pending"
        done == s.status = "returned"
        new == SubSeq(s.notes, Len(running.notes) + 1, Len(s.notes))
        r == Step(s.queue, s.notes, IF done THEN s.ready ELSE <<>>)
        all == {k[1] : k \in DOMAIN sent} \cup {new[i].id : i \in 1..Len(new)}
    IN /\ lastCall' = IF pending THEN "suspended" ELSE call
       /\ lastOut' = r.ready
       /\ lastBatch' = IF "lastBatch" \notin watch THEN lastBatch
                       ELSE IF pending THEN <<>> ELSE ops
       /\ callStore' = IF "callStore" \notin watch THEN callStore
                       ELSE IF pending THEN <<>> ELSE store
       /\ lastNotes' = IF "lastNotes" \notin watch THEN lastNotes
                       ELSE IF pending THEN <<>> ELSE s.notes
       /\ sent' = IF "sent" \notin watch THEN sent
                  ELSE IF pending THEN SentAfter(new, all)
                  ELSE SentAfter(new, Live(r.queue, r))
       /\ split' = IF "split" \in watch /\ done THEN SplitAfter(r) ELSE split
       /\ interfered' = IF "interfered" \in watch /\ done
                        THEN InterferedAfter(before, r)
                        ELSE interfered
       /\ emitted' = IF "emitted" \in watch /\ done
                     THEN emitted \cup EmittedBy(s.ready)
                     ELSE emitted
       /\ firstCall' =
             IF "firstCall" \notin watch THEN firstCall
             ELSE IF call = "enqueue_filtered"
                  THEN IF done /\ ops = <<>>
                       THEN [made |-> TRUE, queue |-> s.queue, notes |-> s.notes]
                       ELSE NoFirstCall
                  ELSE IF running.call # "none" \/ lastCall = "enqueue_filtered"
                       THEN firstCall
                       ELSE NoFirstCall

(***************************************************************************)
(* Scheduler actions.  A call runs until it returns, panics or is          *)
(* suspended in a report; a suspended call goes on once the receiver has   *)
(* taken a notification out of the channel or is gone.  The scheduler and  *)
(* the store are borrowed for the whole call, so no other call and no      *)
(* write to the store comes in between.                                    *)
(***************************************************************************)
\* the state in which a new call begins
Begin == CallState(queue, ChannelCapacity - buffered, receiver = "closed")

\* the state in which the suspended call goes on
Continued ==
    [queue |-> queue, notes |-> running.notes, ready |-> running.ready,
     loop |-> running.loop, i |-> running.i, entries |-> running.entries,
     room |-> ChannelCapacity - buffered, closed |-> receiver = "closed",
     status |-> "run", blocked |-> 0]

\* the call suspended in the state s
InFlight(call, ops, s, before) ==
    [call |-> call, ops |-> ops, loop |-> s.loop, i |-> s.i,
     entries |-> s.entries, ready |-> s.ready, notes |-> s.notes,
     before |-> before]

\* what a step of a call that ends in the state s leaves behind
AfterStep(watch, call, ops, s, before) ==
    /\ queue' = s.queue
    /\ buffered' = ChannelCapacity - s.room
    /\ running' = IF s.status = "pending" THEN InFlight(call, ops, s, before)
                  ELSE NotCalling
    /\ panicked' = IF s.status = "panicked" THEN s.blocked ELSE 0
    /\ Observe(watch, call, ops, s, before)
    /\ UNCHANGED <<store, receiver>>
    /\ UNCHANGED <<dfsVars, valVars, clientVars>>

\* a call of enqueue_filtered_workload_operations with a batch of batches,
\* as long as no more than max operations have been handed in
EnqueueFilteredWith(watch, batches, max) ==
    /\ running.call = "none"
    /\ panicked = 0
    /\ \E batch \in batches :
        /\ nextId + Len(batch) <= max + 1
        /\ nextId' = nextId + Len(batch)
        /\ LET ops == Tagged(batch, nextId)
           IN \E ord \in DrainOrders(QueueAfterBatch(Begin, ops, store)) :
              \E s \in {enqueue_filtered_workload_operations(Begin, ops, store, ord)} :
                AfterStep(watch, "enqueue_filtered", ops, s, queue)

\* a call of next_workload_operations
NextWorkloadOperationsWith(watch) ==
    /\ running.call = "none"
    /\ panicked = 0
    /\ nextId' = nextId
    /\ \E ord \in DrainOrders(queue) :
       \E s \in {next_workload_operations(Begin, store, ord)} :
          AfterStep(watch, "next", <<>>, s, queue)

\* the suspended report is through, or fails: the call goes on
ReportResumesWith(watch) ==
    /\ running.call # "none"
    /\ buffered < ChannelCapacity \/ receiver = "closed"
    /\ nextId' = nextId
    /\ \E ord \in DrainOrders(QueueAfterBatch(Continued, running.ops, store)) :
       \E s \in {Resumed(Continued, running.ops, store, ord)} :
          AfterStep(watch, running.call, running.ops, s, running.before)

\* workload_state_receiver.recv() in another task
ReceiverTakes ==
    /\ receiver = "open"
    /\ buffered > 0
    /\ buffered' = buffered - 1
    /\ UNCHANGED <<queue, store, nextId, running, observers, receiver, panicked>>
    /\ UNCHANGED <<dfsVars, valVars, clientVars>>

\* the runtime reports an execution state into the workload state store
StorePut ==
    \E name \in DependencyNames, state \in ExecutionStates :
        /\ running.call = "none"
        /\ get_state_of_workload(store, name) # state
        /\ store' = Insert(store, name, state)
        /\ lastCall' = "put"
        /\ UNCHANGED <<queue, nextId, running, buffered, lastBatch, callStore,
                       lastOut, lastNotes, sent, split, interfered>>
        /\ UNCHANGED <<dfsVars, histVars, valVars, clientVars>>

\* drop(workload_state_receiver)
CloseReceiver ==
    /\ receiver = "open"
    /\ panicked = 0
    /\ receiver' = "closed"
    /\ UNCHANGED <<schedVars, emitted, firstCall, panicked>>
    /\ UNCHANGED <<dfsVars, valVars, clientVars>>

\* the state of the other components while the scheduler runs
OthersIdle ==
    /\ workloads = <<>>
    /\ data = <<>>
    /\ di = 1
    /\ stack = <<>>
    /\ visited = {}
    /\ path = <<>>
    /\ result = Running
    /\ pushes = 0
    /\ firstRun = NoRun
    /\ examined = ""
    /\ ClientStart
    /\ ProbeStart

(***************************************************************************)
(* The scheduler fed by its producer (Spec)                                *)
(***************************************************************************)
Watched == {"lastBatch", "callStore", "lastNotes", "sent", "split", "interfered"}

Init == OthersIdle /\ SchedNew(Watched)

\* a call of enqueue_filtered_workload_operations with a batch of the producer
EnqueueFiltered == EnqueueFilteredWith(Watched, ContractBatches, MaxAccepted)

\* a call of next_workload_operations
NextWorkloadOperations == NextWorkloadOperationsWith(Watched)

ReportResumes == ReportResumesWith(Watched)

Next ==
    \/ EnqueueFiltered
    \/ NextWorkloadOperations
    \/ ReportResumes
    \/ ReceiverTakes
    \/ StorePut

Spec == Init /\ [][Next]_vars

(***************************************************************************)
(* The scheduler fed with batches that need not obey the producer          *)
(* contract (AnyInputSpec): UpdateDeleteOnly operations, several           *)
(* operations for one workload name, updates whose old and new workload    *)
(* differ in name                                                          *)
(***************************************************************************)
\* the workloads of these batches: those that wait for W2 to run, if at all
AnySpecs ==
    {w \in WorkloadSpecs : w.dependencies \subseteq {<<"W2", "AddCondRunning">>}}

AnyDeleted ==
    {d \in DeletedWorkloads :
        d.instance_name.workload_name = "W1"
            => d.dependencies = {<<"W2", "DelCondRunning">>}}

\* updates of a workload, and updates whose new workload has another name
AnyUpdates ==
    {Update(p[1], p[2], 0) :
        p \in {x \in AnySpecs \X AnyDeleted :
                 /\ x[1].dependencies # {}
                 /\ x[1].instance_name.workload_name
                        \in {x[2].instance_name.workload_name, "W3"}}}

AnyOperations ==
    {Create(w, 0) : w \in AnySpecs}
    \cup {Delete(d, 0) : d \in AnyDeleted}
    \cup {UpdateDeleteOnly(d, 0) : d \in AnyDeleted}
    \cup AnyUpdates

AnyBatches == UNION {[1..n -> AnyOperations] : n \in 0..MaxBatch}

\* a call of enqueue_filtered_workload_operations with any batch
EnqueueFilteredAny == EnqueueFilteredWith(Watched, AnyBatches, MaxMalformed)

AnyInputNext ==
    \/ EnqueueFilteredAny
    \/ NextWorkloadOperations
    \/ ReportResumes
    \/ ReceiverTakes
    \/ StorePut

AnyInputSpec == Init /\ [][AnyInputNext]_vars

(***************************************************************************)
(* The scheduler with the history of the operations it returned            *)
(* (HistorySpec)                                                           *)
(***************************************************************************)
HistWatched == {"lastBatch", "lastNotes", "emitted"}

HistInit == OthersIdle /\ SchedNew(HistWatched)

\* a call of enqueue_filtered_workload_operations with a batch of the producer
HistEnqueueFiltered ==
    EnqueueFilteredWith(HistWatched, ContractBatches, MaxAccepted)

\* a call of next_workload_operations
HistNextWorkloadOperations == NextWorkloadOperationsWith(HistWatched)

HistReportResumes == ReportResumesWith(HistWatched)

HistoryNext ==
    \/ HistEnqueueFiltered
    \/ HistNextWorkloadOperations
    \/ HistReportResumes
    \/ ReceiverTakes
    \/ StorePut

HistorySpec == HistInit /\ [][HistoryNext]_vars

(***************************************************************************)
(* The scheduler re-evaluating its queue (ReevalSpec): a call with an      *)
(* empty batch is remembered until the call that follows it has ended.     *)
(***************************************************************************)
ReevalWatched == {"lastBatch", "lastNotes", "firstCall"}

ReevalInit == OthersIdle /\ SchedNew(ReevalWatched)

\* a call of enqueue_filtered_workload_operations with a batch of the producer
ReevalEnqueueFiltered ==
    EnqueueFilteredWith(ReevalWatched, ContractBatches, MaxAccepted)

\* a call of next_workload_operations; the call before it is kept when it
\* was made with the store of this call
ReevalNextWorkloadOperations == NextWorkloadOperationsWith(ReevalWatched)

ReevalReportResumes == ReportResumesWith(ReevalWatched)

ReevalNext ==
    \/ ReevalEnqueueFiltered
    \/ ReevalNextWorkloadOperations
    \/ ReevalReportResumes
    \/ ReceiverTakes
    \/ StorePut

ReevalSpec == ReevalInit /\ [][ReevalNext]_vars

(***************************************************************************)
(* The scheduler when every change of the store is followed by a call of   *)
(* next_workload_operations (FairSpec): a sweep that would change the      *)
(* state is not put off for ever, the receiver keeps taking the            *)
(* notifications out of the channel and a call whose report is through     *)
(* goes on.                                                                *)
(***************************************************************************)
FairInit == OthersIdle /\ SchedNew({})

\* a call of enqueue_filtered_workload_operations with a batch of the producer
FairEnqueueFiltered == EnqueueFilteredWith({}, ContractBatches, MaxAccepted)

\* a call of next_workload_operations
FairNextWorkloadOperations == NextWorkloadOperationsWith({})

FairReportResumes == ReportResumesWith({})

FairNext ==
    \/ FairEnqueueFiltered
    \/ FairNextWorkloadOperations
    \/ FairReportResumes
    \/ ReceiverTakes
    \/ StorePut

FairSpec ==
    /\ FairInit
    /\ [][FairNext]_vars
    /\ WF_vars(FairNextWorkloadOperations)
    /\ WF_vars(FairReportResumes)
    /\ WF_vars(ReceiverTakes)

(***************************************************************************)
(* The scheduler whose workload state channel may lose its receiver        *)
(* (ClosedSinkSpec).  report_pending_create_state and                      *)
(* report_pending_delete_state send through                                *)
(* report_workload_execution_state, which panics when the send fails.      *)
(***************************************************************************)
SinkWatched == {"lastBatch", "lastNotes", "sent"}

SinkInit == OthersIdle /\ SchedNew(SinkWatched)

\* a call of enqueue_filtered_workload_operations with a batch of the producer
SinkEnqueueFiltered ==
    EnqueueFilteredWith(SinkWatched, ContractBatches, MaxAccepted)

\* a call of next_workload_operations
SinkNextWorkloadOperations == NextWorkloadOperationsWith(SinkWatched)

SinkReportResumes == ReportResumesWith(SinkWatched)

ClosedSinkNext ==
    \/ CloseReceiver
    \/ SinkEnqueueFiltered
    \/ SinkNextWorkloadOperations
    \/ SinkReportResumes
    \/ ReceiverTakes
    \/ StorePut

ClosedSinkSpec == SinkInit /\ [][ClosedSinkNext]_vars


(***************************************************************************)
(* Properties of the cycle check (checked under DfsSpec)                   *)
(***************************************************************************)
\* C1: for every desired state without dangling dependencies whose
\* dependency graph contains a directed cycle, dfs returns
\* Err(WorkloadPartOfCycle(_)), never Ok.
C1_CycleAlwaysReported ==
    (Returned /\ NoDangling /\ HasCycle) => result.kind = "WorkloadPartOfCycle"

\* C5: a desired state in which some dependency names a workload that is
\* not a key of workloads is never admitted: dfs returns an error.
C5_DanglingNeverAdmitted ==
    (Returned /\ ~NoDangling) => result.kind # "Ok"

\* a dangling dependency below the first workload: the state is rejected
\* after the search went at least one level deep
C5_Witness ==
    /\ Returned
    /\ ~NoDangling
    /\ result.kind # "Ok"
    /\ Len(data) >= 2
    /\ workloads[data[1]] # {}
    /\ workloads[data[1]] \subseteq DOMAIN workloads

\* C6: for an acyclic desired state with a dangling dependency, dfs returns
\* InvalidStructure whose message is "workload '<d>' is not part of the
\* state." for one of the absent dependency names d.
C6_DanglingMessage ==
    (Returned /\ ~NoDangling /\ ~HasCycle) =>
        /\ result.kind = "InvalidStructure"
        /\ \E d \in Dangling :
              result.arg = "workload '" \o d \o "' is not part of the state."

\* scenario S7 with the names of the model: A -> B, B -> C, no C
C6_Witness ==
    /\ Returned
    /\ DOMAIN workloads = {"A", "B"}
    /\ workloads["A"] = {"B"}
    /\ workloads["B"] = {"C"}
    /\ result = InvalidStructure("workload 'C' is not part of the state.")

\* C7: for an acyclic desired state without dangling dependencies, dfs
\* returns Ok(()).
C7_NoFalsePositive ==
    (Returned /\ NoDangling /\ ~HasCycle) => result = OkResult

\* an acyclic state in which a workload is reached from several parents and
\* was pushed onto the stack more than once
C7_Witness ==
    /\ result = OkResult
    /\ NoDangling
    /\ ~HasCycle
    /\ pushes > Cardinality(DOMAIN workloads)
    /\ \E w \in DOMAIN workloads :
          Cardinality({v \in DOMAIN workloads : w \in workloads[v]}) >= 2

\* C8: whenever dfs returns WorkloadPartOfCycle(n), n is a key of workloads
\* and n reaches itself through one or more dependency edges.
C8_ParticipantOnCycle ==
    result.kind = "WorkloadPartOfCycle" => OnCycle(result.arg)

\* a cycle is reported in a state that also has workloads off every cycle,
\* one of them already visited and removed when the cycle is found
C8_Witness ==
    /\ result.kind = "WorkloadPartOfCycle"
    /\ \E w \in visited : ~OnCycle(w) /\ ~Contains(path, w)

(***************************************************************************)
(* Properties of the scheduler (checked under Spec)                        *)
(***************************************************************************)
\* number of UpdateDeleteOnly operations with tag id among the first n
\* operations of the last call's output
SplitsInLastOut(id, n) ==
    Cardinality({j \in 1..n : lastOut[j].op = "UpdateDeleteOnly" /\ lastOut[j].id = id})

SplitCount(id) == IF id \in DOMAIN split THEN split[id] ELSE 0

\* an UpdateDeleteOnly of the update emitted as lastOut[i] was emitted
\* earlier: by an earlier call, or earlier in the output of the last call
SplitEmittedBefore(i) ==
    \/ SplitCount(lastOut[i].id) > SplitsInLastOut(lastOut[i].id, Len(lastOut))
    \/ SplitsInLastOut(lastOut[i].id, i - 1) > 0

\* C2: every emitted Update(new, old) is emitted in a call in which
\* delete_fulfilled(old) holds for the store passed to the call, or after an
\* UpdateDeleteOnly(old) was emitted for the same accepted update.
C2_UpdateOnlyAfterDelete ==
    \A i \in 1..Len(lastOut) :
        lastOut[i].op = "Update" =>
            \/ delete_fulfilled(lastOut[i].old, callStore)
            \/ SplitEmittedBefore(i)

\* an Update emitted by a sweep while the delete dependencies of the old
\* instance do not hold any more: its UpdateDeleteOnly went out earlier
C2_Witness ==
    \E i \in 1..Len(lastOut) :
        /\ lastOut[i].op = "Update"
        /\ ~delete_fulfilled(lastOut[i].old, callStore)
        /\ SplitEmittedBefore(i)

\* C3: between the call that accepts an Update(new, old) for a workload
\* name and the call that emits it, the scheduler emits no operation for
\* that name other than at most one UpdateDeleteOnly(old).
C3_NoOtherOperationDuringUpdate ==
    \A i \in 1..Len(lastOut) :
        lastOut[i].op = "Update" =>
            /\ lastOut[i].id \notin interfered
            /\ SplitCount(lastOut[i].id) <= 1

\* C4: each Create(spec) and each Update(new, _) in the output of a call has
\* create_fulfilled(spec or new) under the store passed to that call.
C4_ConservativeCreate ==
    \A i \in 1..Len(lastOut) :
        lastOut[i].op \in {"Create", "Update"} =>
            create_fulfilled(lastOut[i].new, callStore)

\* a call that emits a Create or an Update with a dependency, next to an
\* entry it keeps because its create dependencies do not hold
C4_Witness ==
    /\ \E i \in 1..Len(lastOut) :
          /\ lastOut[i].op \in {"Create", "Update"}
          /\ lastOut[i].new.dependencies # {}
    /\ \E n \in DOMAIN queue :
          /\ queue[n].kind \in {"Create", "UpdateCreate"}
          /\ ~create_fulfilled(queue[n].new, callStore)

\* C9: for each operation accepted into the queue, a WaitingToStart and a
\* WaitingToStop notification are each sent at most once, however often
\* the entry is re-evaluated.
C9_NotifyAtMostOnce ==
    \A k \in DOMAIN sent : sent[k] <= 1

\* an update that sent its WaitingToStop and its WaitingToStart and is
\* still pending after a further sweep that sent nothing
C9_Witness ==
    /\ lastCall = "next"
    /\ lastNotes = <<>>
    /\ \E n \in DOMAIN queue :
          /\ queue[n].kind = "UpdateCreate"
          /\ <<queue[n].id, "WaitingToStop">> \in DOMAIN sent
          /\ <<queue[n].id, "WaitingToStart">> \in DOMAIN sent

\* C10 as stated: a next_workload_operations sweep writes no WaitingToStart
\* and no WaitingToStop notification, whatever the queue and the store.
C10_SweepSendsNoNotification ==
    lastCall = "next" => lastNotes = <<>>

\* C10 as amended: a sweep writes no WaitingToStop notification, and it
\* writes a WaitingToStart notification only for a pending UpdateDelete
\* entry that this sweep turns into UpdateCreate while emitting its
\* UpdateDeleteOnly, once for that entry.
C10_SweepNotifiesOnlySplit ==
    lastCall = "next" =>
        \A i \in 1..Len(lastNotes) :
            /\ lastNotes[i].state = "WaitingToStart"
            /\ \A j \in 1..Len(lastNotes) : lastNotes[j].id = lastNotes[i].id => j = i
            /\ \E n \in DOMAIN queue :
                  /\ queue[n] = PendingUpdateCreate(queue[n].new, queue[n].old,
                                                    lastNotes[i].id)
                  /\ queue[n].new.instance_name = lastNotes[i].instance_name
                  /\ \E j \in 1..Len(lastOut) :
                        lastOut[j] = UpdateDeleteOnly(queue[n].old, lastNotes[i].id)
                  /\ <<lastNotes[i].id, "WaitingToStop">> \in DOMAIN sent

\* a sweep that splits a pending UpdateDelete and reports WaitingToStart
C10_Witness ==
    /\ lastCall = "next"
    /\ lastNotes # <<>>

(***************************************************************************)
(* Gating of the operations of a batch (checked under Spec).  The facts    *)
(* are about the last call of enqueue_filtered_workload_operations: its    *)
(* tagged batch lastBatch, the store callStore it was given, the           *)
(* operations lastOut it returned, the notifications lastNotes it sent and *)
(* the queue it left.                                                      *)
(***************************************************************************)
\* what the last call returned, sent and left queued for the tag id
OutOf(id) == SelectSeq(lastOut, LAMBDA o : o.id = id)
NotesOf(id) == SelectSeq(lastNotes, LAMBDA n : n.id = id)
QueuedUnder(id) == {n \in DOMAIN queue : queue[n].id = id}

WaitingToStart(instance_name, id) ==
    [instance_name |-> instance_name, state |-> "WaitingToStart", id |-> id]

WaitingToStop(instance_name, id) ==
    [instance_name |-> instance_name, state |-> "WaitingToStop", id |-> id]

\* the operation o of the batch is among the returned ones, nothing of it
\* is queued and nothing was sent for it
EmittedAtOnce(o) ==
    /\ OutOf(o.id) = <<o>>
    /\ QueuedUnder(o.id) = {}
    /\ NotesOf(o.id) = <<>>

\* the queue holds entry under name for the tag of the entry, and nowhere else
QueuedAs(name, entry) ==
    /\ name \in DOMAIN queue
    /\ queue[name] = entry
    /\ QueuedUnder(entry.id) = {name}

CreateGated(o) ==
    IF create_fulfilled(o.new, callStore)
    THEN EmittedAtOnce(o)
    ELSE /\ OutOf(o.id) = <<>>
         /\ QueuedAs(o.new.instance_name.workload_name, PendingCreate(o.new, o.id))
         /\ NotesOf(o.id) = <<WaitingToStart(o.new.instance_name, o.id)>>

DeleteGated(o) ==
    IF delete_fulfilled(o.old, callStore)
    THEN EmittedAtOnce(o)
    ELSE /\ OutOf(o.id) = <<>>
         /\ QueuedAs(o.old.instance_name.workload_name, PendingDelete(o.old, o.id))
         /\ NotesOf(o.id) = <<WaitingToStop(o.old.instance_name, o.id)>>

UpdateSplit(o) ==
    /\ OutOf(o.id) = <<UpdateDeleteOnly(o.old, o.id)>>
    /\ QueuedAs(o.new.instance_name.workload_name,
                PendingUpdateCreate(o.new, o.old, o.id))
    /\ NotesOf(o.id) = <<WaitingToStart(o.new.instance_name, o.id)>>

UpdateParked(o) ==
    /\ OutOf(o.id) = <<>>
    /\ QueuedAs(o.new.instance_name.workload_name,
                PendingUpdateDelete(o.new, o.old, o.id))
    /\ NotesOf(o.id) = <<WaitingToStop(o.old.instance_name, o.id)>>

\* C11: for each Create(spec) of the batch of an enqueue_filtered call: if
\* create_fulfilled(spec, store) holds the call returns Create(spec), queues
\* nothing for it and sends nothing for it; otherwise the call does not
\* return it, the queue holds Create(spec) under the workload name of spec
\* and exactly one (spec.instance_name, WaitingToStart) was sent.
C11_CreateGating ==
    \A i \in DOMAIN lastBatch :
        lastBatch[i].op = "Create" => CreateGated(lastBatch[i])

\* a batch with a Create that is returned and a Create that is parked
C11_Witness ==
    \E i, j \in DOMAIN lastBatch :
        /\ lastBatch[i].op = "Create"
        /\ lastBatch[j].op = "Create"
        /\ lastBatch[i].new.dependencies # {}
        /\ create_fulfilled(lastBatch[i].new, callStore)
        /\ lastBatch[i] \in {lastOut[k] : k \in DOMAIN lastOut}
        /\ ~create_fulfilled(lastBatch[j].new, callStore)
        /\ QueuedUnder(lastBatch[j].id) # {}
        /\ NotesOf(lastBatch[j].id) # <<>>

\* C12: for each Delete(deleted) of the batch of an enqueue_filtered call:
\* if delete_fulfilled(deleted, store) holds the call returns
\* Delete(deleted), queues nothing for it and sends nothing for it;
\* otherwise the call does not return it, the queue holds Delete(deleted)
\* under its workload name and exactly one (deleted.instance_name,
\* WaitingToStop) was sent.
C12_DeleteGating ==
    \A i \in DOMAIN lastBatch :
        lastBatch[i].op = "Delete" => DeleteGated(lastBatch[i])

\* a batch with a Delete that is returned and a Delete that is parked
C12_Witness ==
    \E i, j \in DOMAIN lastBatch :
        /\ lastBatch[i].op = "Delete"
        /\ lastBatch[j].op = "Delete"
        /\ \E dep \in lastBatch[i].old.dependencies :
              get_state_of_workload(callStore, dep[1]) # NoState
        /\ delete_fulfilled(lastBatch[i].old, callStore)
        /\ lastBatch[i] \in {lastOut[k] : k \in DOMAIN lastOut}
        /\ ~delete_fulfilled(lastBatch[j].old, callStore)
        /\ QueuedUnder(lastBatch[j].id) # {}
        /\ NotesOf(lastBatch[j].id) # <<>>

\* C13: an Update(new, old) of the batch with delete_fulfilled(old) true and
\* create_fulfilled(new) false: the call returns exactly
\* UpdateDeleteOnly(old) for it, the queue holds UpdateCreate(new, old)
\* under the workload name, and (new.instance_name, WaitingToStart) is
\* the only notification sent for it.
C13_UpdateSplit ==
    \A i \in DOMAIN lastBatch :
        (/\ lastBatch[i].op = "Update"
         /\ delete_fulfilled(lastBatch[i].old, callStore)
         /\ ~create_fulfilled(lastBatch[i].new, callStore))
        => UpdateSplit(lastBatch[i])

\* an update is split although the store knows its delete dependency
C13_Witness ==
    \E i \in DOMAIN lastBatch :
        /\ lastBatch[i].op = "Update"
        /\ \E dep \in lastBatch[i].old.dependencies :
              get_state_of_workload(callStore, dep[1]) # NoState
        /\ delete_fulfilled(lastBatch[i].old, callStore)
        /\ ~create_fulfilled(lastBatch[i].new, callStore)
        /\ \E k \in DOMAIN lastOut :
              lastOut[k] = UpdateDeleteOnly(lastBatch[i].old, lastBatch[i].id)
        /\ \E n \in DOMAIN queue :
              queue[n].kind = "UpdateCreate" /\ queue[n].id = lastBatch[i].id

\* C14: an Update(new, old) of the batch with delete_fulfilled(old) false,
\* whatever create_fulfilled(new) is: the call returns nothing for it, the
\* queue holds UpdateDelete(new, old) under the workload name, and
\* (old.instance_name, WaitingToStop) is the only notification sent for it.
C14_UpdateParked ==
    \A i \in DOMAIN lastBatch :
        (/\ lastBatch[i].op = "Update"
         /\ ~delete_fulfilled(lastBatch[i].old, callStore))
        => UpdateParked(lastBatch[i])

\* an update is parked although its create dependencies are fulfilled
C14_Witness ==
    \E i \in DOMAIN lastBatch :
        /\ lastBatch[i].op = "Update"
        /\ ~delete_fulfilled(lastBatch[i].old, callStore)
        /\ create_fulfilled(lastBatch[i].new, callStore)
        /\ lastBatch[i].new.dependencies # {}
        /\ \E n \in DOMAIN queue :
              queue[n].kind = "UpdateDelete" /\ queue[n].id = lastBatch[i].id
        /\ NotesOf(lastBatch[i].id) # <<>>

\* C15: an Update(new, old) of the batch with delete_fulfilled(old) and
\* create_fulfilled(new) both true: the call returns Update(new, old) (and
\* no UpdateDeleteOnly) for it, queues nothing for it and sends nothing
\* for it.
C15_UpdateImmediate ==
    \A i \in DOMAIN lastBatch :
        (/\ lastBatch[i].op = "Update"
         /\ delete_fulfilled(lastBatch[i].old, callStore)
         /\ create_fulfilled(lastBatch[i].new, callStore))
        => EmittedAtOnce(lastBatch[i])

\* an update with dependencies on both sides is returned at once
C15_Witness ==
    \E i \in DOMAIN lastBatch :
        /\ lastBatch[i].op = "Update"
        /\ lastBatch[i].new.dependencies # {}
        /\ \E dep \in lastBatch[i].old.dependencies :
              get_state_of_workload(callStore, dep[1]) # NoState
        /\ delete_fulfilled(lastBatch[i].old, callStore)
        /\ create_fulfilled(lastBatch[i].new, callStore)
        /\ lastOut = <<lastBatch[i]>>
        /\ queue = <<>>

(***************************************************************************)
(* Properties of DependencyStateValidator (checked under ValidatorSpec)    *)
(***************************************************************************)
ProbedCreate == probeResult.called /\ probeInput.call = "create_fulfilled"
ProbedDelete == probeResult.called /\ probeInput.call = "delete_fulfilled"

Known(dep) == dep[1] \in DOMAIN probeInput.db

\* C16: create_fulfilled(spec, store) is true iff every dependency of spec
\* has a known state in the store and that state fulfils its add condition
\* (AddCondRunning only by Running, AddCondSucceeded only by Succeeded,
\* AddCondFailed only by Failed); a single dependency of unknown state
\* makes it false; a spec without dependencies yields true without a
\* lookup in the store.
C16_CreateFulfilled ==
    ProbedCreate =>
        LET deps == probeInput.workload.dependencies
            db == probeInput.db
        IN /\ probeResult.value =
                (\A dep \in deps :
                    /\ Known(dep)
                    /\ \/ dep[2] = "AddCondRunning" /\ db[dep[1]] = "Running"
                       \/ dep[2] = "AddCondSucceeded" /\ db[dep[1]] = "Succeeded"
                       \/ dep[2] = "AddCondFailed" /\ db[dep[1]] = "Failed")
           /\ (\E dep \in deps : ~Known(dep)) => ~probeResult.value
           /\ deps = {} => (probeResult.value /\ probeResult.lookups = 0)

\* two dependencies, one of unknown state and one whose state fulfils its
\* condition: create_fulfilled is false
C16_Witness ==
    /\ ProbedCreate
    /\ Cardinality(probeInput.workload.dependencies) = 2
    /\ \E dep \in probeInput.workload.dependencies : ~Known(dep)
    /\ \E dep \in probeInput.workload.dependencies :
          Known(dep) /\ dep[2] = "AddCondFailed" /\ probeInput.db[dep[1]] = "Failed"
    /\ ~probeResult.value

EntryName(e) ==
    IF e.kind = "Delete" THEN e.old.instance_name.workload_name
    ELSE e.new.instance_name.workload_name

\* C18: the queue holds at most one pending entry per workload name, and
\* every entry is stored under the workload name of the operation it holds
\* (for UpdateCreate and UpdateDelete the name of the new spec).
C18_QueueUniqueness ==
    \A n \in DOMAIN queue :
        /\ EntryName(queue[n]) = n
        /\ Cardinality({k \in DOMAIN queue :
                           EntryName(queue[k]) = EntryName(queue[n])}) = 1

\* two entries are pending, one of them an update that renames its workload
C18_Witness ==
    /\ Cardinality(DOMAIN queue) = 2
    /\ \E n \in DOMAIN queue :
          /\ queue[n].kind \in {"UpdateCreate", "UpdateDelete"}
          /\ queue[n].old.instance_name.workload_name # n

\* the last call returned, queued or reported something for operation o
TakesEffect(o) ==
    \/ OutOf(o.id) # <<>>
    \/ QueuedUnder(o.id) # {}
    \/ NotesOf(o.id) # <<>>

\* the operations of the last batch other than UpdateDeleteOnly
Processed == {i \in DOMAIN lastBatch : lastBatch[i].op # "UpdateDeleteOnly"}

\* operation o of the batch went through the gate of its kind
Gated(o) ==
    CASE o.op = "Create" -> CreateGated(o)
      [] o.op = "Delete" -> DeleteGated(o)
      [] o.op = "Update" ->
           IF ~delete_fulfilled(o.old, callStore) THEN UpdateParked(o)
           ELSE IF ~create_fulfilled(o.new, callStore) THEN UpdateSplit(o)
           ELSE EmittedAtOnce(o)

\* C19: an UpdateDeleteOnly of the batch of an enqueue_filtered call is
\* dropped: the call returns nothing for it, queues nothing for it and
\* sends nothing for it; the other operations of the batch go through
\* their gates as usual; and the queue never holds an UpdateDeleteOnly.
C19_UpdateDeleteOnlyDropped ==
    /\ \A i \in DOMAIN lastBatch :
          lastBatch[i].op = "UpdateDeleteOnly" => ~TakesEffect(lastBatch[i])
    /\ ((\E i \in DOMAIN lastBatch : lastBatch[i].op = "UpdateDeleteOnly")
         /\ (\A i, j \in Processed :
                i # j => OpName(lastBatch[i]) # OpName(lastBatch[j])))
        => \A i \in Processed : Gated(lastBatch[i])
    /\ \A n \in DOMAIN queue :
          queue[n].kind \in {"Create", "Delete", "UpdateCreate", "UpdateDelete"}

\* a batch of an UpdateDeleteOnly and a Create of the same workload name
\* that is parked: only the Create is queued and reported
C19_Witness ==
    \E i, j \in DOMAIN lastBatch :
        /\ lastBatch[i].op = "UpdateDeleteOnly"
        /\ lastBatch[j].op = "Create"
        /\ OpName(lastBatch[i]) = OpName(lastBatch[j])
        /\ lastOut = <<>>
        /\ DOMAIN queue = {OpName(lastBatch[j])}
        /\ Len(lastNotes) = 1
        /\ lastNotes[1].id = lastBatch[j].id

\* C20: of the operations of one batch that name the same workload at most
\* one takes effect: the duplicates are neither returned nor queued and
\* nothing is sent for them.
C20_DuplicatesDropped ==
    \A i, j \in DOMAIN lastBatch :
        (i # j /\ OpName(lastBatch[i]) = OpName(lastBatch[j]))
        => ~(TakesEffect(lastBatch[i]) /\ TakesEffect(lastBatch[j]))

(***************************************************************************)
(* Properties of repeated calls of the cycle check and of its containers   *)
(* (checked under DfsSpec)                                                 *)
(***************************************************************************)
\* a second call has returned
ReturnedAgain == Returned /\ firstRun # NoRun

\* the workloads that set_start_node renamed
StartNodes ==
    {n \in DOMAIN workloads : \E b \in WorkloadNames : n = StartName(b)}

\* the result with the name of a start node mapped back to its base name
Unrenamed(r) ==
    IF \E b \in WorkloadNames : r.arg = StartName(b)
    THEN [r EXCEPT !.arg = CHOOSE b \in WorkloadNames : r.arg = StartName(b)]
    ELSE r

\* C26: two calls of dfs on desired states with the same workload names
\* and the same dependency sets return the same result, with the same
\* participant or the same message, whatever order the workload map and
\* the dependencies maps are iterated in.
C26_Deterministic ==
    (ReturnedAgain /\ workloads = firstRun.workloads) => result = firstRun.result

\* two calls on a state of three or more workloads, one of them with two
\* or more dependencies, that is rejected
C26_Witness ==
    /\ ReturnedAgain
    /\ workloads = firstRun.workloads
    /\ Cardinality(DOMAIN workloads) >= 3
    /\ \E w \in DOMAIN workloads : Cardinality(workloads[w]) >= 2
    /\ result.kind \in {"WorkloadPartOfCycle", "InvalidStructure"}
    /\ result = firstRun.result

\* C27 as stated: for a cyclic desired state the result of dfs, the
\* reported participant included, is the same for every choice of the
\* workload made the start node.
C27_StartNodeIndependent ==
    (ReturnedAgain /\ NoDangling /\ HasCycle)
    => Unrenamed(result) = firstRun.result

AtMostOneDependency ==
    \A w \in DOMAIN workloads : Cardinality(workloads[w]) <= 1

\* C27: for a cyclic desired state without dangling dependencies in which
\* every workload has at most one dependency, as {A->B, B->C, C->A}, dfs
\* returns WorkloadPartOfCycle for every choice of the start node; the
\* participant is on a cycle, and it is the start node when the start node
\* is on a cycle.
C27_StartNodeReported ==
    (ReturnedAgain /\ NoDangling /\ HasCycle /\ AtMostOneDependency)
    => /\ result.kind = "WorkloadPartOfCycle"
       /\ firstRun.result.kind = "WorkloadPartOfCycle"
       /\ OnCycle(result.arg)
       /\ \A n \in StartNodes : OnCycle(n) => result.arg = n

\* a cycle of three workloads is searched from a start node that is not
\* the workload the first call reported
C27_Witness ==
    /\ ReturnedAgain
    /\ NoDangling
    /\ AtMostOneDependency
    /\ Cardinality(DOMAIN workloads) = 3
    /\ \A n \in DOMAIN workloads : OnCycle(n)
    /\ StartNodes # {}
    /\ result.kind = "WorkloadPartOfCycle"
    /\ result.arg \in StartNodes
    /\ Unrenamed(result) # firstRun.result

\* C29: at the start of an iteration of the while loop that removes its
\* head (a head already visited), the head is the last element of path,
\* so that the post-order step removes the head from path and no other
\* workload.
C29_PathPopsHead ==
    (result = Running /\ stack # <<>> /\ Head(stack) \in visited)
    => (path # <<>> /\ path[Len(path)] = Head(stack))

\* the dependencies of the examined workload that are not part of the state
\* and sort before name
MissingBefore(name) ==
    {d \in workloads[examined] :
        d \notin DOMAIN workloads /\ NameRank(d) < NameRank(name)}

\* C30 as stated: a missing dependency is reported before any dependency
\* sorting after it is examined, so no call returns WorkloadPartOfCycle(p)
\* from a workload that has a missing dependency sorting before p.
C30_DanglingBeforeCycle ==
    (Returned /\ result.kind = "WorkloadPartOfCycle") => MissingBefore(result.arg) = {}

\* C30: a dependency that is not a key of workloads is not checked while
\* the dependencies of the top workload are examined: it is pushed like any
\* unvisited dependency, and InvalidStructure naming it is returned only
\* when it is the top of the stack; a dependency on the current path that
\* sorts after it makes dfs return WorkloadPartOfCycle first.
C30_DanglingAtStackTop ==
    /\ (Returned /\ result.kind = "InvalidStructure")
       => /\ stack # <<>>
          /\ Head(stack) \notin DOMAIN workloads
          /\ result.arg = "workload '" \o Head(stack) \o "' is not part of the state."
    /\ (Returned /\ result.kind = "WorkloadPartOfCycle")
       => /\ result.arg \in workloads[examined]
          /\ Contains(path, result.arg)
          /\ \A d \in MissingBefore(result.arg) : Contains(stack, d)

\* a workload with a missing dependency that sorts before a dependency on
\* the current path: WorkloadPartOfCycle is returned
C30_Witness ==
    /\ Returned
    /\ result.kind = "WorkloadPartOfCycle"
    /\ MissingBefore(result.arg) # {}

(***************************************************************************)
(* Properties of the scheduler: supersession, ordering, notifications      *)
(***************************************************************************)
\* C28: when a call of enqueue_filtered_workload_operations accepts an
\* operation for a workload name, an older pending entry of that name is
\* superseded, whether the new operation is emitted at once or queued: after
\* the call the queue holds no entry of that name older than the operation.
C28_Supersession ==
    lastCall = "enqueue_filtered"
    => \A i \in 1..Len(lastBatch) :
          \A n \in DOMAIN queue :
             n = OpName(lastBatch[i]) => queue[n].id >= lastBatch[i].id

\* the operation was handed in with the batch of the last call
FromBatch(o) == \E k \in 1..Len(lastBatch) : lastBatch[k].id = o.id

\* C23: in the output of one call of enqueue_filtered_workload_operations
\* the operations of the batch that are ready at once keep the order of the
\* batch, and the operations the trailing sweep produces from older queue
\* entries come after all of them.
C23_OutputOrdering ==
    lastCall = "enqueue_filtered"
    => \A i, j \in 1..Len(lastOut) :
          (i < j /\ FromBatch(lastOut[j]))
          => (FromBatch(lastOut[i]) /\ lastOut[i].id < lastOut[j].id)

\* a call returns two operations of its batch and, after them, an operation
\* of an older queue entry
C23_Witness ==
    /\ lastCall = "enqueue_filtered"
    /\ Len(lastBatch) = 2
    /\ Len(lastOut) = 3
    /\ lastOut[1].id = lastBatch[1].id
    /\ lastOut[2].id = lastBatch[2].id
    /\ ~FromBatch(lastOut[3])

(***************************************************************************)
(* Properties of the calls made before the last one                        *)
(***************************************************************************)
\* a call with an empty batch and then, with the same store,
\* next_workload_operations have been made
ReevaluatedTwice == lastCall = "next" /\ firstCall.made

\* C22 as stated: after enqueue_filtered_workload_operations with an empty
\* batch and then next_workload_operations on an unchanged store, the queue
\* is what it was after the first call, the second call has emitted no
\* operation, and neither call has sent a notification.
C22_Idempotent ==
    ReevaluatedTwice
    => /\ queue = firstCall.queue
       /\ lastOut = <<>>
       /\ lastNotes = <<>>
       /\ firstCall.notes = <<>>

\* the notification is the WaitingToStart of a pending update that the
\* call has turned from UpdateDelete into UpdateCreate
OfSplitUpdate(note) ==
    /\ note.state = "WaitingToStart"
    /\ \E n \in DOMAIN queue :
          /\ queue[n].kind = "UpdateCreate"
          /\ queue[n].id = note.id
          /\ queue[n].new.instance_name = note.instance_name

\* C22: after enqueue_filtered_workload_operations with an empty batch and
\* then next_workload_operations on an unchanged store, the queue is what
\* it was after the first call and the second call has emitted no operation
\* and sent no notification; the first call has sent no WaitingToStop, and a
\* WaitingToStart only for a pending update whose UpdateDeleteOnly it emitted.
C22_SecondCallIdle ==
    ReevaluatedTwice
    => /\ queue = firstCall.queue
       /\ lastOut = <<>>
       /\ lastNotes = <<>>
       /\ \A i \in 1..Len(firstCall.notes) : OfSplitUpdate(firstCall.notes[i])

\* the first of the two calls has split a pending update, the second call
\* has found the queue it left
C22_Witness ==
    /\ ReevaluatedTwice
    /\ firstCall.notes # <<>>
    /\ queue # <<>>
    /\ queue = firstCall.queue

\* C24: no notification of an operation is sent in or after the call that
\* returns its Create, Update or Delete: no WaitingToStop of a Delete in or
\* after the call that returns the Delete, and no WaitingToStart of the
\* workload of a Create or Update in or after the call that returns it.
C24_MonotonicNotifications ==
    \A i \in 1..Len(lastNotes) :
       /\ lastNotes[i].state = "WaitingToStop" => lastNotes[i].id \notin emitted
       /\ lastNotes[i].state = "WaitingToStart" => lastNotes[i].id \notin emitted

\* two operations were returned by earlier calls, and the last call has
\* sent a notification for another operation
C24_Witness ==
    /\ Cardinality(emitted) >= 2
    /\ lastCall \in {"enqueue_filtered", "next"}
    /\ lastNotes # <<>>
    /\ \A i \in 1..Len(lastOut) : lastOut[i].op = "UpdateDeleteOnly"

(***************************************************************************)
(* The calls as steps: a call returns in the step that begins it or, when  *)
(* it was suspended in a report, in a later step                           *)
(***************************************************************************)
\* the queue on which the call in progress, or the call a step begins, was
\* made
QueueBefore == IF running.call = "none" THEN queue ELSE running.before

\* the step is the return of a call of the kind call; a step of the
\* receiver takes a notification out of the channel, a call never does
CallReturns(call) ==
    /\ lastCall' = call
    /\ running'.call = "none"
    /\ buffered' >= buffered

\* the notifications the call in progress has sent so far or, when none is
\* in progress, those of the call that ended last
CallNotes == IF running.call = "none" THEN lastNotes ELSE running.notes

(***************************************************************************)
(* Properties of the closed workload state channel (ClosedSinkSpec)        *)
(***************************************************************************)
\* the waiting state reported for a queue entry when it is queued
WaitingStateOf(entry) ==
    IF entry.kind \in {"Create", "UpdateCreate"} THEN "WaitingToStart"
    ELSE "WaitingToStop"

\* C25: when the receiver of the workload state channel is closed and a
\* WaitingToStart or WaitingToStop is to be sent, the scheduler panics: the
\* call returns nothing and the operation whose report failed is not in
\* the queue; every entry of the queue, in every state, had its waiting
\* state delivered to the channel.
C25_ClosedSinkFatal ==
    /\ \A n \in DOMAIN queue :
          <<queue[n].id, WaitingStateOf(queue[n])>> \in DOMAIN sent
    /\ panicked # 0
       => /\ receiver = "closed"
          /\ running.call = "none"
          /\ lastOut = <<>>
          /\ \A n \in DOMAIN queue : queue[n].id # panicked

\* the receiver was closed while the call was suspended in a report: the
\* call had delivered a notification and queued its operation, and has
\* panicked on the report of another operation
C25_Witness ==
    /\ panicked # 0
    /\ receiver = "closed"
    /\ lastNotes # <<>>
    /\ queue # <<>>

(***************************************************************************)
(* Progress of the pending entries (FairSpec)                              *)
(***************************************************************************)
\* the preconditions of a pending entry are fulfilled in the store db
EntryReady(entry, db) ==
    CASE entry.kind = "Create" -> create_fulfilled(entry.new, db)
      [] entry.kind = "Delete" -> delete_fulfilled(entry.old, db)
      [] entry.kind = "UpdateCreate" -> create_fulfilled(entry.new, db)
      [] entry.kind = "UpdateDelete" ->
           create_fulfilled(entry.new, db) /\ delete_fulfilled(entry.old, db)

\* the operation a pending entry is emitted as
FinalOp(entry) ==
    CASE entry.kind = "Create" -> Create(entry.new, entry.id)
      [] entry.kind = "Delete" -> Delete(entry.old, entry.id)
      [] entry.kind \in {"UpdateCreate", "UpdateDelete"} ->
           Update(entry.new, entry.old, entry.id)

Tags == 1..MaxAccepted

Pending(id) == \E n \in DOMAIN queue : queue[n].id = id

\* the operation tagged id is pending and its preconditions are fulfilled
PendingReady(id) ==
    \E n \in DOMAIN queue : queue[n].id = id /\ EntryReady(queue[n], store)

\* the last call has returned the Create, Update or Delete of the operation
\* tagged id and has not queued it again
EmittedNow(id) ==
    /\ lastCall \in {"enqueue_filtered", "next"}
    /\ \E i \in 1..Len(lastOut) :
          lastOut[i].id = id /\ lastOut[i].op # "UpdateDeleteOnly"
    /\ ~Pending(id)

\* the operation tagged id is pending and its preconditions do not hold
Unfulfilled(id) ==
    \E n \in DOMAIN queue : queue[n].id = id /\ ~EntryReady(queue[n], store)

\* the operation tagged id is pending under the workload name n and its
\* preconditions are fulfilled
PendingReadyAt(id, n) ==
    /\ n \in DOMAIN queue
    /\ queue[n].id = id
    /\ EntryReady(queue[n], store)

\* the operation tagged id is pending no more: an operation for the same
\* workload name n that was handed in after it and is not ready has been
\* queued under n in its place
Replaced(id, n) ==
    /\ ~Pending(id)
    /\ n \in DOMAIN queue
    /\ queue[n].id > id
    /\ ~EntryReady(queue[n], store)

\* the entry is returned by the call that ends with this step and is not
\* queued again
SweptOut(entry) ==
    /\ \E i \in 1..Len(lastOut') : lastOut'[i] = FinalOp(entry)
    /\ \A m \in DOMAIN queue' : queue'[m].id # entry.id

\* a call sweeps the queue: it returns every entry that was pending before
\* it and whose preconditions are fulfilled, and does not queue it again
FirstSweepEmitsAlways ==
    (CallReturns("enqueue_filtered") \/ CallReturns("next"))
    => \A n \in DOMAIN QueueBefore :
          EntryReady(QueueBefore[n], store) => SweptOut(QueueBefore[n])

\* the same, unless the call is enqueue_filtered_workload_operations and
\* has queued an operation of its batch for the same workload name that is
\* not ready, in place of the entry
FirstSweepEmits ==
    (CallReturns("enqueue_filtered") \/ CallReturns("next"))
    => \A n \in DOMAIN QueueBefore :
          LET entry == QueueBefore[n]
          IN EntryReady(entry, store)
             => \/ SweptOut(entry)
                \/ /\ lastCall' = "enqueue_filtered"
                   /\ n \in DOMAIN queue'
                   /\ queue'[n].id > entry.id
                   /\ ~EntryReady(queue'[n], store)
                   /\ \A i \in 1..Len(lastOut') : lastOut'[i].id # entry.id

\* C21 as claimed: when every change of the store is followed by a call of
\* next_workload_operations, a pending entry whose preconditions are
\* fulfilled and stay fulfilled in the store is emitted and leaves the
\* queue, and the first sweep made with such a store emits it.
C21_ProgressAlways ==
    /\ \A id \in Tags : PendingReady(id) ~> (EmittedNow(id) \/ Unfulfilled(id))
    /\ [][FirstSweepEmitsAlways]_vars

\* C21: when every change of the store is followed by a call of
\* next_workload_operations, a pending entry whose preconditions are
\* fulfilled and stay fulfilled in the store is emitted and leaves the
\* queue (Create when create_fulfilled, Delete when delete_fulfilled,
\* UpdateCreate when create_fulfilled, UpdateDelete when both hold), and
\* the first sweep made with such a store emits it, unless a call of
\* enqueue_filtered_workload_operations is handed an operation for the
\* same workload name that is not ready before: that operation is queued
\* in place of the entry and the entry is never emitted.
C21_Progress ==
    /\ \A id \in Tags, n \in ScheduledNames :
          PendingReadyAt(id, n)
              ~> (EmittedNow(id) \/ Unfulfilled(id) \/ Replaced(id, n))
    /\ [][FirstSweepEmits]_vars

\* a call of next_workload_operations has returned the Create, Update or
\* Delete of an entry that had been waiting in the queue
C21_Witness ==
    /\ lastCall = "next"
    /\ \E i \in 1..Len(lastOut) : EmittedNow(lastOut[i].id)
    /\ store # <<>>

(***************************************************************************)
(* Termination and cost of the cycle check (DfsRunSpec)                    *)
(***************************************************************************)
\* V + E: the number of workloads and of dependency entries of the state
VerticesAndEdges == Cardinality(DOMAIN workloads) + NumDeps(workloads)

\* the names a step pushes are the first elements of the stack after it;
\* none of them is visited
PushesUnvisited ==
    pushes' > pushes
    => \A i \in 1..(pushes' - pushes) : stack'[i] \notin visited'

\* C31: dfs returns on every desired state, cyclic, acyclic or with
\* dangling dependencies; the number of stack.push_front calls it makes is
\* at most V + E, and a workload that is visited is not pushed again.
C31_TerminatesWithinBound ==
    /\ (result = Running) ~> Returned
    /\ [](pushes <= VerticesAndEdges)
    /\ [][PushesUnvisited]_vars

\* dfs has returned Ok after more pushes than the state has workloads: a
\* workload was pushed a second time before it was visited
C31_Witness ==
    /\ result = OkResult
    /\ pushes > Cardinality(DOMAIN workloads)
    /\ pushes <= VerticesAndEdges

(***************************************************************************)
(* Sweep of the queue entries (Spec)                                       *)
(***************************************************************************)
\* the step is a sweep that reaches the entry queued under name n: a call of
\* next_workload_operations, or a call of enqueue_filtered_workload_operations
\* whose batch has no operation for n
SweepReaches(n) ==
    \/ CallReturns("next")
    \/ /\ CallReturns("enqueue_filtered")
       /\ \A i \in 1..Len(lastBatch') : OpName(lastBatch'[i]) # n

\* what a sweep does with each UpdateCreate entry of the queue
UpdateCreateSwept ==
    \A n \in DOMAIN QueueBefore :
        (QueueBefore[n].kind = "UpdateCreate" /\ SweepReaches(n)) =>
            LET entry == QueueBefore[n]
                update == Update(entry.new, entry.old, entry.id)
            IN /\ (\E i \in 1..Len(lastOut') : lastOut'[i] = update)
                      <=> create_fulfilled(entry.new, store)
               /\ create_fulfilled(entry.new, store) => n \notin DOMAIN queue'
               /\ ~create_fulfilled(entry.new, store)
                      => n \in DOMAIN queue' /\ queue'[n] = entry
               /\ \A i \in 1..Len(lastOut') :
                      lastOut'[i].id = entry.id => lastOut'[i] = update
               /\ \A m \in DOMAIN queue' :
                      queue'[m].id = entry.id => queue'[m].kind = "UpdateCreate"

\* C32: a sweep emits Update(new, old) for an UpdateCreate(new, old) entry
\* iff create_fulfilled(new) holds for the store of the call, whatever
\* delete_fulfilled(old) is, and otherwise queues the same entry again; the
\* entry does not become UpdateDelete and no UpdateDeleteOnly is emitted for
\* it.
C32_UpdateCreateSweep == [][UpdateCreateSwept]_vars

\* a call of next_workload_operations has emitted the Update of an entry
\* that was split by an earlier call, and nothing else, while the delete
\* dependencies of the old instance are not fulfilled in the call's store
C32_Witness ==
    /\ lastCall = "next"
    /\ Len(lastOut) = 1
    /\ lastOut[1].op = "Update"
    /\ SplitCount(lastOut[1].id) = 1
    /\ create_fulfilled(lastOut[1].new, callStore)
    /\ ~delete_fulfilled(lastOut[1].old, callStore)
    /\ queue = <<>>

(***************************************************************************)
(* Life cycle of a split update (Spec)                                     *)
(***************************************************************************)
\* the UpdateDeleteOnly of every update went out at most once, and where the
\* last call emitted the Update, none of its UpdateDeleteOnly is at or after
\* it in the output and no entry of the update is left in the queue
SplitOnceAndFirst ==
    /\ \A id \in DOMAIN split : split[id] <= 1
    /\ \A i \in 1..Len(lastOut) :
          lastOut[i].op = "Update" =>
              /\ SplitsInLastOut(lastOut[i].id, Len(lastOut))
                     = SplitsInLastOut(lastOut[i].id, i - 1)
              /\ QueuedUnder(lastOut[i].id) = {}

\* the output of the step holds exactly the one operation o for o's tag
EmitsOnly(o) ==
    /\ \E i \in 1..Len(lastOut') : lastOut'[i] = o
    /\ \A i, j \in 1..Len(lastOut') :
          (lastOut'[i].id = o.id /\ lastOut'[j].id = o.id)
              => (i = j /\ lastOut'[i] = o)

\* the split of an update whose delete dependencies hold and whose create
\* dependencies do not, at acceptance and by a sweep of its UpdateDelete
\* entry, and the sweep of the UpdateCreate entry the split leaves
SplitSteps ==
    /\ CallReturns("enqueue_filtered") =>
          \A i \in 1..Len(lastBatch') :
             LET o == lastBatch'[i]
             IN (/\ o.op = "Update"
                 /\ delete_fulfilled(o.old, store)
                 /\ ~create_fulfilled(o.new, store))
                => /\ EmitsOnly(UpdateDeleteOnly(o.old, o.id))
                   /\ OpName(o) \in DOMAIN queue'
                   /\ queue'[OpName(o)] = PendingUpdateCreate(o.new, o.old, o.id)
                   /\ SplitCount(o.id) = 0
    /\ \A n \in DOMAIN QueueBefore :
          LET entry == QueueBefore[n]
          IN /\ (/\ entry.kind = "UpdateDelete"
                 /\ SweepReaches(n)
                 /\ delete_fulfilled(entry.old, store)
                 /\ ~create_fulfilled(entry.new, store))
                => /\ EmitsOnly(UpdateDeleteOnly(entry.old, entry.id))
                   /\ n \in DOMAIN queue'
                   /\ queue'[n] = PendingUpdateCreate(entry.new, entry.old,
                                                      entry.id)
                   /\ SplitCount(entry.id) = 0
             /\ (/\ entry.kind = "UpdateCreate"
                 /\ SweepReaches(n))
                => /\ SplitCount(entry.id) = 1
                   /\ IF create_fulfilled(entry.new, store)
                      THEN /\ EmitsOnly(Update(entry.new, entry.old, entry.id))
                           /\ \A m \in DOMAIN queue' : queue'[m].id # entry.id
                      ELSE /\ \A k \in 1..Len(lastOut') :
                                 lastOut'[k].id # entry.id
                           /\ queue'[n] = entry

WaitingInstanceOf(entry) ==
    IF entry.kind \in {"Create", "UpdateCreate"} THEN entry.new.instance_name
    ELSE entry.old.instance_name

\* every entry that the call has put into the queue, or changed there, by
\* the end of the step has its waiting notification among those the call
\* has sent by then, whether the step ends in the return of the call or in
\* a report in which the call is suspended
NewEntriesNotified ==
    \A n \in DOMAIN queue' :
        (n \notin DOMAIN QueueBefore \/ QueueBefore[n] # queue'[n]) =>
            \E k \in 1..Len(CallNotes') :
                CallNotes'[k] = [instance_name |-> WaitingInstanceOf(queue'[n]),
                                 state |-> WaitingStateOf(queue'[n]),
                                 id |-> queue'[n].id]

\* C34: for every entry of the queue the matching waiting notification was
\* sent: (new.instance_name, WaitingToStart) for Create and UpdateCreate
\* entries, (old.instance_name, WaitingToStop) for Delete and UpdateDelete
\* entries.
C34_QueueWitnessesNotification ==
    /\ [](\A n \in DOMAIN queue :
             /\ <<queue[n].id, WaitingStateOf(queue[n])>> \in DOMAIN sent
             /\ sent[<<queue[n].id, WaitingStateOf(queue[n])>>] >= 1)
    /\ [][NewEntriesNotified]_vars

\* the queue holds an UpdateCreate entry and a Delete or UpdateDelete entry,
\* each with its notification sent
C34_Witness ==
    \E n, m \in DOMAIN queue :
        /\ queue[n].kind = "UpdateCreate"
        /\ queue[m].kind \in {"Delete", "UpdateDelete"}
        /\ <<queue[n].id, "WaitingToStart">> \in DOMAIN sent
        /\ <<queue[m].id, "WaitingToStop">> \in DOMAIN sent

(***************************************************************************)
(* The sweep at the end of enqueue_filtered_workload_operations (Spec)     *)
(***************************************************************************)
\* the preconditions of an operation of a batch are fulfilled in the store db
OperationReady(o, db) ==
    CASE o.op = "Create" -> create_fulfilled(o.new, db)
      [] o.op = "Delete" -> delete_fulfilled(o.old, db)
      [] o.op = "Update" ->
           create_fulfilled(o.new, db) /\ delete_fulfilled(o.old, db)

\* the batch of the step has an operation for name n that is not ready and
\* is therefore inserted into the queue under n
BatchQueues(n) ==
    \E i \in 1..Len(lastBatch') :
        OpName(lastBatch'[i]) = n /\ ~OperationReady(lastBatch'[i], store)

\* the step emits the operation of the entry and leaves no entry of its tag
EmittedAndRemoved(entry) ==
    /\ \E i \in 1..Len(lastOut') : lastOut'[i] = FinalOp(entry)
    /\ \A m \in DOMAIN queue' : queue'[m].id # entry.id

\* every entry that is pending before a call of
\* enqueue_filtered_workload_operations and ready under its store is emitted
\* by the call
ReadyEntriesEmitted ==
    CallReturns("enqueue_filtered")
    => \A n \in DOMAIN QueueBefore :
          EntryReady(QueueBefore[n], store) => EmittedAndRemoved(QueueBefore[n])

\* C35 as stated: enqueue_filtered_workload_operations emits every entry
\* that was pending before the call and whose preconditions hold under the
\* store of the call, and removes it from the queue.
C35_PendingReadyEmitted == [][ReadyEntriesEmitted]_vars

\* the same for the entries the batch does not replace; an entry whose name
\* the batch queues a new operation under is dropped and not emitted
ReadyEntriesEmittedUnlessReplaced ==
    CallReturns("enqueue_filtered")
    => \A n \in DOMAIN QueueBefore :
          LET entry == QueueBefore[n]
          IN EntryReady(entry, store) =>
                IF BatchQueues(n)
                THEN /\ \A i \in 1..Len(lastOut') : lastOut'[i].id # entry.id
                     /\ n \in DOMAIN queue'
                     /\ queue'[n].id > entry.id
                ELSE EmittedAndRemoved(entry)

\* C35 (amended): enqueue_filtered_workload_operations sweeps the queue
\* after its batch: an entry that was pending before the call and whose
\* preconditions hold under the store of the call is emitted by the call and
\* removed from the queue, also when the batch is empty or has no operation
\* for that workload, unless the batch queues a new operation under the same
\* workload name, which replaces the entry without emitting it.
C35_ReevaluatesQueue == [][ReadyEntriesEmittedUnlessReplaced]_vars

\* a call with a batch for another workload has emitted an operation that
\* was pending before the call
C35_Witness ==
    /\ lastCall = "enqueue_filtered"
    /\ lastBatch # <<>>
    /\ \E i \in 1..Len(lastOut) :
          /\ lastOut[i].id < lastBatch[1].id
          /\ \A j \in 1..Len(lastBatch) :
                OpName(lastBatch[j]) # OpName(lastOut[i])

(***************************************************************************)
(* The queue after a call (Spec)                                           *)
(***************************************************************************)
\* the gate a pending entry waits at is closed in the store db
BlockedUnder(entry, db) ==
    IF entry.kind \in {"Create", "UpdateCreate"}
    THEN ~create_fulfilled(entry.new, db)
    ELSE ~delete_fulfilled(entry.old, db)

\* C36: after a call of enqueue_filtered_workload_operations or of
\* next_workload_operations with store S every entry left in the queue is
\* blocked under S: create_fulfilled is false for Create and UpdateCreate
\* entries, delete_fulfilled is false for Delete and UpdateDelete entries.
C36_QueueBlockedAfterCall ==
    lastCall \in {"enqueue_filtered", "next"}
    => /\ callStore = store
       /\ \A n \in DOMAIN queue : BlockedUnder(queue[n], callStore)

\* after a sweep the queue holds an UpdateDelete entry whose create
\* dependencies are fulfilled and whose delete dependencies are not, next to
\* an entry that waits for its create dependencies
C36_Witness ==
    /\ lastCall = "next"
    /\ \E n, m \in DOMAIN queue :
          /\ queue[n].kind = "UpdateDelete"
          /\ create_fulfilled(queue[n].new, callStore)
          /\ ~delete_fulfilled(queue[n].old, callStore)
          /\ queue[m].kind \in {"Create", "UpdateCreate"}
          /\ ~create_fulfilled(queue[m].new, callStore)

(***************************************************************************)
(* A sweep conserves the entries (Spec)                                    *)
(***************************************************************************)
\* the output of the step holds the operation of the entry
InOutput(entry) == \E i \in 1..Len(lastOut') : lastOut'[i] = FinalOp(entry)

\* after the step the queue holds, under the same name n, an entry with the
\* specs of the entry: the entry itself, or the UpdateCreate of an
\* UpdateDelete
StillQueued(n, entry) ==
    /\ n \in DOMAIN queue'
    /\ queue'[n].new = entry.new
    /\ queue'[n].old = entry.old
    /\ queue'[n].id = entry.id
    /\ \/ queue'[n].kind = entry.kind
       \/ entry.kind = "UpdateDelete" /\ queue'[n].kind = "UpdateCreate"

\* what a call of next_workload_operations does with the queue
SweepConserves ==
    CallReturns("next")
    => /\ \A n \in DOMAIN QueueBefore :
             LET entry == QueueBefore[n]
             IN /\ InOutput(entry) \/ StillQueued(n, entry)
                /\ ~(InOutput(entry) /\ StillQueued(n, entry))
                /\ Cardinality({i \in 1..Len(lastOut') :
                                   lastOut'[i] = FinalOp(entry)}) <= 1
       /\ DOMAIN queue' \subseteq DOMAIN QueueBefore
       /\ \A i \in 1..Len(lastOut') :
             \E n \in DOMAIN QueueBefore : lastOut'[i].id = QueueBefore[n].id

\* C37: for every entry of the queue before a call of
\* next_workload_operations, after the call either its operation (Create,
\* Delete or Update) is in the output of the call or an entry with the same
\* specs is queued under the same workload name (an UpdateDelete may have
\* become UpdateCreate), never both and never neither; the sweep adds no
\* workload name to the queue.
C37_SweepConserves == [][SweepConserves]_vars

\* a sweep of two entries has emitted the operation of one and queued the
\* other again
C37_Witness ==
    /\ lastCall = "next"
    /\ Len(lastOut) = 1
    /\ lastOut[1].op \in {"Create", "Delete", "Update"}
    /\ Cardinality(DOMAIN queue) = 1
    /\ \A n \in DOMAIN queue : queue[n].id # lastOut[1].id

(***************************************************************************)
(* GRPCCommunicationsClient (src/grpc/src/client.rs).  run is followed     *)
(* from await to await; the server and the transport decide how a          *)
(* connection attempt ends.                                                *)
(***************************************************************************)
RECONNECT_TIMEOUT_SECONDS == 1

\* calls of run_internal followed in one run
MaxCalls == 3
\* state change requests forwarded over one connection
MaxForwarded == 2

ClientNames == {"agent_A", "agent_B"}
ServerAddresses == {"http://127.0.0.1:25551"}

new_agent_communication(name, server_address) ==
    [name |-> name, server_address |-> server_address,
     connection_type |-> "Agent"]

new_cli_communication(name, server_address) ==
    [name |-> name, server_address |-> server_address,
     connection_type |-> "Cli"]

\* the variants of GrpcMiddlewareError that run tells apart; OtherError is
\* any variant its wildcard arm takes
GrpcMiddlewareError == {"ServerNotAvailable", "ConnectionInterrupted", "OtherError"}

\* proto::StateChangeRequest with StateChangeRequestEnum::AgentHello
AgentHello(agent_name) ==
    [state_change_request_enum |-> "AgentHello", agent_name |-> agent_name]

\* a proto::StateChangeRequest forwarded from the state change channel
ForwardedRequests ==
    {[state_change_request_enum |-> e, agent_name |-> ""] :
        e \in {"UpdateState", "UpdateWorkloadState"}}

\* Err(CommunicationMiddlewareError(format!(...)))
CommunicationMiddlewareError(server_address) ==
    [value |-> "CommunicationMiddlewareError",
     message |-> <<"Could not connect to Ankaios server on '", server_address,
                   "'.">>]

ClientInit ==
    /\ workloads = <<>>
    /\ data = <<>>
    /\ di = 1
    /\ stack = <<>>
    /\ visited = {}
    /\ path = <<>>
    /\ result = Running
    /\ pushes = 0
    /\ firstRun = NoRun
    /\ examined = ""
    /\ queue = <<>>
    /\ store = <<>>
    /\ nextId = 1
    /\ lastCall = "none"
    /\ lastBatch = <<>>
    /\ callStore = <<>>
    /\ lastOut = <<>>
    /\ lastNotes = <<>>
    /\ sent = <<>>
    /\ split = <<>>
    /\ interfered = {}
    /\ emitted = {}
    /\ firstCall = NoFirstCall
    /\ receiver = "open"
    /\ panicked = 0
    /\ running = NotCalling
    /\ buffered = 0
    /\ ProbeStart
    /\ \E name \in ClientNames, server_address \in ServerAddresses :
          client \in {new_agent_communication(name, server_address),
                      new_cli_communication(name, server_address)}
    /\ run = NotRunning
    /\ grpc_tx = <<>>

\* run is called and enters its loop
RunCalled ==
    /\ run.pc = "created"
    /\ run' = [run EXCEPT !.pc = "loop"]
    /\ UNCHANGED <<client, grpc_tx>>
    /\ UNCHANGED <<dfsVars, schedVars, histVars, valVars>>

\* run_internal up to connect_to_server: the outgoing channel is created
\* and, for an agent, AgentHello is sent into it
RunInternalCalled ==
    /\ run.pc = "loop"
    /\ run.calls < MaxCalls
    /\ grpc_tx' = IF client.connection_type = "Agent"
                  THEN <<AgentHello(client.name)>>
                  ELSE <<>>
    /\ run' = [run EXCEPT !.pc = "connect", !.calls = @ + 1, !.slept = 0]
    /\ UNCHANGED client
    /\ UNCHANGED <<dfsVars, schedVars, histVars, valVars>>

\* connect_to_server(grpc_rx).await? fails: run_internal returns the error
ConnectFails ==
    /\ run.pc = "connect"
    /\ \E err \in GrpcMiddlewareError :
          run' = [run EXCEPT !.pc = "match", !.result = err]
    /\ UNCHANGED <<client, grpc_tx>>
    /\ UNCHANGED <<dfsVars, schedVars, histVars, valVars>>

\* connect_to_server succeeds: the two forwarding tasks are selected on
Connected ==
    /\ run.pc = "connect"
    /\ run' = [run EXCEPT !.pc = "forward"]
    /\ UNCHANGED <<client, grpc_tx>>
    /\ UNCHANGED <<dfsVars, schedVars, histVars, valVars>>

\* forward_from_ankaios_to_proto sends a state change request
Forward ==
    /\ run.pc = "forward"
    /\ Len(grpc_tx) <= MaxForwarded
    /\ \E request \in ForwardedRequests : grpc_tx' = Append(grpc_tx, request)
    /\ UNCHANGED <<client, run>>
    /\ UNCHANGED <<dfsVars, schedVars, histVars, valVars>>

\* one of the forwarding tasks completes: run_internal returns Ok(())
SelectCompletes ==
    /\ run.pc = "forward"
    /\ run' = [run EXCEPT !.pc = "match", !.result = "Ok"]
    /\ UNCHANGED <<client, grpc_tx>>
    /\ UNCHANGED <<dfsVars, schedVars, histVars, valVars>>

\* variant of MatchAgent: an agent connection that ended with Ok(()) is not
\* tried again
MatchAgentBreaksOnOk ==
    /\ run.pc = "match"
    /\ client.connection_type = "Agent"
    /\ run' = IF run.result = "Ok"
              THEN [run EXCEPT !.pc = "returned", !.returned = RunOk]
              ELSE [run EXCEPT !.pc = "sleep"]
    /\ UNCHANGED <<client, grpc_tx>>
    /\ UNCHANGED <<dfsVars, schedVars, histVars, valVars>>

\* ConnectionType::Agent arm: the result is logged and the sleep begins
MatchAgent ==
    /\ run.pc = "match"
    /\ client.connection_type = "Agent"
    /\ run' = [run EXCEPT !.pc = "sleep"]
    /\ UNCHANGED <<client, grpc_tx>>
    /\ UNCHANGED <<dfsVars, schedVars, histVars, valVars>>

\* sleep(Duration::from_secs(RECONNECT_TIMEOUT_SECONDS)).await completes
SleepElapsed ==
    /\ run.pc = "sleep"
    /\ run' = [run EXCEPT !.pc = "loop", !.slept = RECONNECT_TIMEOUT_SECONDS]
    /\ UNCHANGED <<client, grpc_tx>>
    /\ UNCHANGED <<dfsVars, schedVars, histVars, valVars>>

\* variant of MatchCli: an interrupted connection is reported as an error too
MatchCliInterruptedIsError ==
    /\ run.pc = "match"
    /\ client.connection_type = "Cli"
    /\ run' = [run EXCEPT
                 !.pc = "returned",
                 !.returned =
                     IF run.result \in {"ServerNotAvailable", "ConnectionInterrupted"}
                     THEN CommunicationMiddlewareError(client.server_address)
                     ELSE RunOk]
    /\ UNCHANGED <<client, grpc_tx>>
    /\ UNCHANGED <<dfsVars, schedVars, histVars, valVars>>

\* ConnectionType::Cli arm: return Err for ServerNotAvailable, otherwise
\* break and return Ok(())
MatchCli ==
    /\ run.pc = "match"
    /\ client.connection_type = "Cli"
    /\ run' = [run EXCEPT
                 !.pc = "returned",
                 !.returned =
                     IF run.result = "ServerNotAvailable"
                     THEN CommunicationMiddlewareError(client.server_address)
                     ELSE RunOk]
    /\ UNCHANGED <<client, grpc_tx>>
    /\ UNCHANGED <<dfsVars, schedVars, histVars, valVars>>

ClientNext ==
    \/ RunCalled
    \/ RunInternalCalled
    \/ ConnectFails
    \/ Connected
    \/ Forward
    \/ SelectCompletes
    \/ MatchAgent
    \/ SleepElapsed
    \/ MatchCli

\* the steps run takes by itself once run_internal has returned
AfterRunInternal ==
    \/ MatchAgent
    \/ SleepElapsed
    \/ MatchCli
    \/ RunInternalCalled

ClientSpec == ClientInit /\ [][ClientNext]_vars /\ WF_vars(AfterRunInternal)

(***************************************************************************)
(* Properties of the client (ClientSpec)                                   *)
(***************************************************************************)
\* a connection attempt has begun with a new outgoing channel that holds
\* AgentHello with the name of the client and nothing else
AttemptStarted ==
    /\ run.pc = "connect"
    /\ grpc_tx = <<AgentHello(client.name)>>

\* what an agent client does when run_internal has returned
AgentRetrySteps ==
    client.connection_type = "Agent" =>
        /\ run.pc = "match" => run'.pc = "sleep"
        /\ run.pc = "sleep" => run'.pc = "loop" /\ run'.slept = RECONNECT_TIMEOUT_SECONDS
        /\ (run'.pc = "connect" /\ run.pc # "connect") =>
              /\ AttemptStarted'
              /\ run.calls > 0 => run.slept = RECONNECT_TIMEOUT_SECONDS

\* C38: for a client made by new_agent_communication run does not return;
\* after every return of run_internal, Ok or an error, the client sleeps the
\* reconnect timeout and starts a new attempt with a new outgoing channel
\* whose first message is AgentHello with the name of the client.
C38_AgentAlwaysRetries ==
    /\ [](client.connection_type = "Agent" =>
             /\ run.pc # "returned"
             /\ run.returned = NoReturn
             /\ run.pc \in {"connect", "forward", "match"} =>
                   /\ grpc_tx # <<>>
                   /\ grpc_tx[1] = AgentHello(client.name))
    /\ [][AgentRetrySteps]_vars
    /\ \A r \in GrpcMiddlewareError \cup {"Ok"}, c \in 1..(MaxCalls - 1) :
          (/\ client.connection_type = "Agent"
           /\ run.pc = "match"
           /\ run.result = r
           /\ run.calls = c)
          ~> (AttemptStarted /\ run.calls = c + 1)

\* an agent client whose connection ended with Ok(()) after it had forwarded
\* requests has begun its next attempt
C38_Witness ==
    /\ client.connection_type = "Agent"
    /\ run.result = "Ok"
    /\ run.calls = 2
    /\ AttemptStarted

\* what a command line client does when run_internal has returned
CliReturnStep ==
    (client.connection_type = "Cli" /\ run.pc = "match") => run'.pc = "returned"

\* C39: for a client made by new_cli_communication run calls run_internal
\* once and returns: Err(CommunicationMiddlewareError) iff the call failed
\* with ServerNotAvailable, Ok(()) when the connection was interrupted or
\* closed or failed with another error; no AgentHello is sent.
C39_CliNeverRetries ==
    /\ [](client.connection_type = "Cli" =>
             /\ run.calls <= 1
             /\ \A i \in 1..Len(grpc_tx) :
                   grpc_tx[i].state_change_request_enum # "AgentHello"
             /\ run.pc = "returned" =>
                   /\ run.calls = 1
                   /\ run.returned = CommunicationMiddlewareError(client.server_address)
                          <=> run.result = "ServerNotAvailable"
                   /\ run.result \in {"Ok", "ConnectionInterrupted", "OtherError"}
                          => run.returned = RunOk
             /\ run.pc # "returned" => run.returned = NoReturn)
    /\ [][CliReturnStep]_vars
    /\ (client.connection_type = "Cli" /\ run.pc = "match") ~> (run.pc = "returned")

\* a command line client has returned Ok(()) after its one connection, over
\* which requests were forwarded, was interrupted
C39_Witness ==
    /\ client.connection_type = "Cli"
    /\ run.pc = "returned"
    /\ run.result = "ConnectionInterrupted"
    /\ run.returned = RunOk
    /\ run.calls = 1

====
